---- MODULE Spec2Model ----
(***************************************************************************)
(* Verification model of the MidiPortal Rust engine:                       *)
(*   - the ring transport     (rust/src/shared_buffer.rs)                  *)
(*   - the MPE init tracker   (rust/src/midi_engine/src/sysex.rs)          *)
(*   - the note tracker       (rust/midi_engine/src/note_tracker.rs)       *)
(*   - the MPE zone manager   (rust/midi_engine/src/mpe.rs)                *)
(*   - the message decoder    (rust/midi_engine/src/midi_processor.rs,     *)
(*                             rust/src/midi_engine/src/lib.rs)            *)
(* Each component has its own specification over the shared variable list; *)
(* the variables of the other components keep their initial values.        *)
(***************************************************************************)
EXTENDS Integers, Sequences, FiniteSets, TLC

VARIABLES
    \* ---- SharedMidiBuffer
    mem,                \* the bytes at buffer+0 .. buffer+MemTop-1
    write_pos,          \* AtomicUsize write_pos
    read_pos,           \* AtomicUsize read_pos
    owner,              \* ghost: per byte, the number of the write() that stored it
    crashed,            \* the process was ended by a fault
    trace,              \* ghost: the completed calls, in order
    wr,                 \* the writer's position inside write() and its locals
    rd,                 \* the reader's position inside read() and its locals
    \* ---- MpeInitTracker
    state,              \* MpeInitState
    last_message_time,  \* f64, in units of 1/TimeRes s
    mpe_call,           \* ghost: the last process_message call and its result
    hs_run,             \* ghost: how much of the handshake has been fed in order
    accepted,           \* ghost: the last accepted messages / timeout resets
    \* ---- NoteTracker
    active_notes,       \* HashMap<(u8,u8), NoteExpression>, as its entries
    history,            \* Vec<NoteExpression>
    trk_call,           \* ghost: the last tracker call
    \* ---- MpeConfiguration
    lower_zone,         \* Option<MpeZone>
    upper_zone,         \* Option<MpeZone>
    zone_call,          \* ghost: the last call on the configuration
    \* ---- RustMidiStats (its note_tracker, mpe_config and mpe_init are above)
    current_bpm,        \* f64
    average_bpm,        \* f64
    jitter,             \* f64
    clock_count,        \* i32
    last_clock_time,    \* f64, a timestamp
    dec_call            \* ghost: the last call of the decoder and its result

ringVars == <<mem, owner, write_pos, read_pos, crashed, trace, wr, rd>>
mpeVars  == <<state, last_message_time, mpe_call, hs_run, accepted>>
trkVars  == <<active_notes, history, trk_call>>
zoneVars == <<lower_zone, upper_zone, zone_call>>
clockVars == <<current_bpm, average_bpm, jitter, clock_count, last_clock_time>>
decVars  == <<clockVars, dec_call>>
vars     == <<ringVars, mpeVars, trkVars, zoneVars, decVars>>

(***************************************************************************)
(*                          Ring transport                                 *)
(***************************************************************************)

\* capacity handed to SharedMidiBuffer::new
Cap == 48
\* number of write()/read() calls explored in one behaviour
MaxOps == 6

\* Offsets Cap .. MemTop-1 are the memory that follows the allocation: write()
\* and read() never reduce `pos` modulo capacity before using it as an offset.
MemTop == 2 * Cap

\* Byte values an uninitialised or foreign byte may hold.
Garbage == {0, 255}

\* A value standing for every integer beyond the range the model computes in.
TooBig == 1000 * 1000

\* ---- MidiEvent { data, timestamp, device_name }; device_name is the
\* String's UTF-8 bytes (String::len() counts bytes).
MidiEvent(d, t, n) == [data |-> d, timestamp |-> t, device_name |-> n]

EvEmpty == MidiEvent(<< >>, 7, << >>)
EvOn    == MidiEvent(<<144, 60, 127>>, 1000, <<65>>)
EvOff   == MidiEvent(<<128, 60, 0>>, 70000, <<66>>)
EvSysex == MidiEvent(<<240, 126, 127, 247>>, 300, <<195, 169, 65, 66>>)
Events  == {EvEmpty, EvOn, EvOff, EvSysex}

NoEvent == MidiEvent(<< >>, 0, << >>)

\* ---- little-endian stores and loads (x86-64 / aarch64 layout)
U32Bytes(v) ==
    <<v % 256, (v \div 256) % 256, (v \div 65536) % 256, (v \div 16777216) % 256>>

U64Bytes(v) == U32Bytes(v) \o <<0, 0, 0, 0>>

Store(m, pos, bytes) ==
    [i \in DOMAIN m |->
        IF i >= pos /\ i < pos + Len(bytes) THEN bytes[i - pos + 1] ELSE m[i]]

Load(m, pos, n) == [i \in 1..n |-> m[pos + i - 1]]

FromLE(bytes) ==
    IF \E i \in 4..Len(bytes) : bytes[i] # 0
    THEN TooBig
    ELSE bytes[1] + 256 * bytes[2] + 65536 * bytes[3]

LoadU32(m, pos) == FromLE(Load(m, pos, 4))
LoadU64(m, pos) == FromLE(Load(m, pos, 8))

\* ---- String::from_utf8_lossy(bytes).to_string(), as UTF-8 bytes.
\* Valid one-, two- and three-byte sequences are kept; every other byte
\* becomes U+FFFD (EF BF BD).
IsCont(b) == b >= 128 /\ b <= 191
Replacement == <<239, 191, 189>>

RECURSIVE FromUtf8Lossy(_)
FromUtf8Lossy(bytes) ==
    IF bytes = << >> THEN << >>
    ELSE LET b == bytes[1]
             n == Len(bytes)
         IN  IF b < 128
             THEN <<b>> \o FromUtf8Lossy(Tail(bytes))
             ELSE IF b >= 194 /\ b <= 223 /\ n >= 2 /\ IsCont(bytes[2])
             THEN <<b, bytes[2]>> \o FromUtf8Lossy(SubSeq(bytes, 3, n))
             ELSE IF b >= 225 /\ b <= 236 /\ n >= 3
                     /\ IsCont(bytes[2]) /\ IsCont(bytes[3])
             THEN <<b, bytes[2], bytes[3]>> \o FromUtf8Lossy(SubSeq(bytes, 4, n))
             ELSE Replacement \o FromUtf8Lossy(Tail(bytes))

\* line 86 with the 4 bytes of the total_size field counted in
TotalSizeCountingItself(ev) == 4 + 8 + 4 + Len(ev.data) + 4 + Len(ev.device_name)

\* ---- write(): lines 84-100
TotalSize(ev) == 8 + 4 + Len(ev.data) + 4 + Len(ev.device_name)

AvailableSpace(w, r) == IF w >= r THEN Cap - (w - r) ELSE r - w

FitsNoHeader(total_size, available_space) == ~(total_size > available_space)
\* `if total_size + 4 > available_space { return false; }`, negated
Fits(total_size, available_space) == ~(total_size + 4 > available_space)

\* ---- write(): lines 103-132, the five stores in order
FrameBytes(ev) ==
    U32Bytes(TotalSize(ev)) \o U64Bytes(ev.timestamp)
        \o U32Bytes(Len(ev.data)) \o ev.data
        \o U32Bytes(Len(ev.device_name)) \o ev.device_name

StoreFrame(m, pos, ev) == Store(m, pos, FrameBytes(ev))

\* `self.write_pos.store(pos % self.capacity, ..)` / the same for read_pos
Publish(pos) == pos % Cap

\* A u32 / u64 access through a cast pointer at an offset that is not a
\* multiple of 4 / 8 (malloc returns 16-aligned memory) is undefined
\* behaviour: builds with pointer-alignment checks abort there, the others
\* perform the unaligned access.
Misaligned(pos, data_len) ==
    \/ pos % 4 # 0
    \/ (pos + 4) % 8 # 0
    \/ (pos + 16 + data_len) % 4 # 0

\* An access at or beyond capacity is outside the allocation.
OutOfBounds(pos, frame_len) == pos + frame_len > Cap

\* ---- read(): lines 152-183 on the memory `m`; "fault" when a length read
\* from memory leads outside the modelled memory.
ReadFrame(m, pos) ==
    LET data_len == LoadU32(m, pos + 12)
    IN  IF pos + 16 + data_len + 4 > MemTop
        THEN [fault |-> TRUE, ev |-> NoEvent, pos |-> pos, data_len |-> data_len]
        ELSE LET name_len == LoadU32(m, pos + 16 + data_len)
                 last     == pos + 16 + data_len + 4 + name_len
             IN  IF last > MemTop
                 THEN [fault |-> TRUE, ev |-> NoEvent, pos |-> pos,
                       data_len |-> data_len]
                 ELSE [fault |-> FALSE,
                       ev |-> MidiEvent(
                                Load(m, pos + 16, data_len),
                                LoadU64(m, pos + 4),
                                FromUtf8Lossy(Load(m, pos + 20 + data_len, name_len))),
                       pos |-> last,
                       data_len |-> data_len]

\* What the memory after the allocation may hold when read() loads from it:
\* what write() stored there, or bytes of its real owner.
Views(m, pos_end) ==
    IF pos_end <= Cap THEN {m}
    ELSE {m} \cup {[i \in DOMAIN m |-> IF i >= Cap THEN g ELSE m[i]] : g \in Garbage}

\* A completed call. clean is a ghost of a read that returned an event: every
\* byte it loaded had been stored by one and the same write(), and that
\* write() had published its cursor before the byte was loaded.
Call(op, ev, ok) == [op |-> op, ev |-> ev, ok |-> ok, clean |-> TRUE]
ReadCall(ev, clean) == [op |-> "read", ev |-> ev, ok |-> TRUE, clean |-> clean]

Foreign(o, pos, n, id) == \E i \in pos..(pos + n - 1) : o[i] # id

\* The writer inside write(): where it is, the event, the frame's offset;
\* n numbers the write() calls that passed the space check, calls counts all.
WriterIdle == [pc |-> "idle", n |-> 0, calls |-> 0, ev |-> NoEvent, pos |-> 0]

\* The reader inside read(): where it is and the locals read so far; tainted
\* is a ghost, set when a byte it loaded was not stored by one write() that
\* had published its cursor before the load.
ReaderIdle ==
    [pc |-> "idle", calls |-> 0, pos |-> 0, first |-> 0, timestamp |-> 0,
     data_len |-> 0, data |-> << >>, name_len |-> 0, name |-> << >>,
     tainted |-> FALSE]

Mark(o, pos, len, id) ==
    [i \in DOMAIN o |-> IF i >= pos /\ i < pos + len THEN id ELSE o[i]]

RingInit ==
    /\ mem \in {[i \in 0..(MemTop - 1) |-> g] : g \in Garbage}
    /\ owner = [i \in 0..(MemTop - 1) |-> 0]
    /\ write_pos = 0
    /\ read_pos = 0
    /\ crashed = FALSE
    /\ trace = << >>
    /\ wr = WriterIdle
    /\ rd = ReaderIdle

\* The outcome of a fault: the process ends.
Crash(op, ev) ==
    /\ crashed' = TRUE
    /\ trace' = Append(trace, Call(op, ev, FALSE))
    /\ UNCHANGED <<mem, owner, write_pos, read_pos, wr, rd>>

\* SharedMidiBuffer::write, called with no read() in progress
Write(ev) ==
    /\ ~crashed
    /\ Len(trace) < MaxOps
    /\ LET total_size == TotalSize(ev)
           available_space == AvailableSpace(write_pos, read_pos)
       IN  IF ~Fits(total_size, available_space)
           THEN /\ trace' = Append(trace, Call("write", ev, FALSE))
                /\ UNCHANGED <<mem, owner, write_pos, read_pos, crashed, wr, rd>>
           ELSE \/ /\ mem' = StoreFrame(mem, write_pos, ev)
                   /\ owner' = Mark(owner, write_pos, 4 + total_size, wr.n + 1)
                   /\ wr' = [wr EXCEPT !.n = @ + 1]
                   /\ write_pos' = Publish(write_pos + 4 + total_size)
                   /\ trace' = Append(trace, Call("write", ev, TRUE))
                   /\ UNCHANGED <<read_pos, crashed, rd>>
                \/ /\ \/ Misaligned(write_pos, Len(ev.data))
                      \/ OutOfBounds(write_pos, 4 + total_size)
                   /\ Crash("write_fault", ev)

\* SharedMidiBuffer::read, called with no write() in progress
Read ==
    /\ ~crashed
    /\ Len(trace) < MaxOps
    /\ IF read_pos = write_pos
       THEN /\ trace' = Append(trace, Call("read", NoEvent, FALSE))
            /\ UNCHANGED <<mem, owner, write_pos, read_pos, crashed, wr, rd>>
       ELSE \E m \in Views(mem, ReadFrame(mem, read_pos).pos) :
              LET f == ReadFrame(m, read_pos)
              IN  \/ /\ ~f.fault
                     /\ mem' = m
                     /\ read_pos' = Publish(f.pos)
                     /\ trace' = Append(trace,
                            ReadCall(f.ev,
                                /\ owner[read_pos] >= 1
                                /\ ~Foreign(owner, read_pos, f.pos - read_pos,
                                            owner[read_pos])))
                     /\ UNCHANGED <<owner, write_pos, crashed, wr, rd>>
                  \/ /\ \/ f.fault
                        \/ Misaligned(read_pos, f.data_len)
                        \/ OutOfBounds(read_pos, f.pos - read_pos)
                     /\ Crash("read_fault", NoEvent)

(***************************************************************************)
(*      Ring transport, one writer and one reader running concurrently     *)
(* write() and read() are taken one memory access at a time: the loads of  *)
(* the cursors with the check on them, each typed store / load, each       *)
(* copy_nonoverlapping, the store of the cursor.                           *)
(***************************************************************************)
\* number of write() / read() calls started in one behaviour
MaxConcWrites == 3
MaxConcReads == 2

ConcEvents == {EvOn, EvOff}

Published(id) == id >= 1 /\ (id < wr.n \/ wr.pc = "idle")

\* a typed access of n bytes at offset off that is misaligned or outside
\* the allocation
MayFault(off, n) == off % n # 0 \/ off + n > Cap

WData(w) == w.pos + 16
WNameLen(w) == w.pos + 16 + Len(w.ev.data)
WName(w) == w.pos + 20 + Len(w.ev.data)
WEnd(w) == w.pos + 20 + Len(w.ev.data) + Len(w.ev.device_name)

\* one store of write(): bytes at off, then on to the next access
WStore(from, to, off, bytes, typed) ==
    /\ ~crashed
    /\ wr.pc = from
    /\ \/ /\ mem' = Store(mem, off, bytes)
          /\ owner' = Mark(owner, off, Len(bytes), wr.n)
          /\ wr' = [wr EXCEPT !.pc = to]
          /\ UNCHANGED <<write_pos, read_pos, crashed, trace, rd>>
       \/ /\ \/ typed /\ MayFault(off, Len(bytes))
             \/ off + Len(bytes) > Cap
          /\ Crash("write_fault", wr.ev)

\* lines 84-100: sizes, the two cursor loads, the space check
WBegin(ev) ==
    /\ ~crashed
    /\ wr.pc = "idle"
    /\ wr.calls < MaxConcWrites
    /\ IF ~Fits(TotalSize(ev), AvailableSpace(write_pos, read_pos))
       THEN /\ trace' = Append(trace, Call("write", ev, FALSE))
            /\ wr' = [wr EXCEPT !.calls = @ + 1]
            /\ UNCHANGED <<mem, owner, write_pos, read_pos, crashed, rd>>
       ELSE /\ wr' = [pc |-> "st_total", n |-> wr.n + 1, calls |-> wr.calls + 1,
                      ev |-> ev, pos |-> write_pos]
            /\ UNCHANGED <<mem, owner, write_pos, read_pos, crashed, trace, rd>>

\* line 107
WStoreTotal == WStore("st_total", "st_ts", wr.pos, U32Bytes(TotalSize(wr.ev)), TRUE)
\* line 111
WStoreTimestamp == WStore("st_ts", "st_dlen", wr.pos + 4, U64Bytes(wr.ev.timestamp), TRUE)
\* line 115
WStoreDataLen == WStore("st_dlen", "cp_data", wr.pos + 12, U32Bytes(Len(wr.ev.data)), TRUE)
\* lines 117-121
WCopyData == WStore("cp_data", "st_nlen", WData(wr), wr.ev.data, FALSE)
\* line 125
WStoreNameLen ==
    WStore("st_nlen", "cp_name", WNameLen(wr), U32Bytes(Len(wr.ev.device_name)), TRUE)
\* lines 127-131
WCopyName == WStore("cp_name", "publish", WName(wr), wr.ev.device_name, FALSE)

\* line 135 and the return
WPublish ==
    /\ ~crashed
    /\ wr.pc = "publish"
    /\ write_pos' = Publish(WEnd(wr))
    /\ trace' = Append(trace, Call("write", wr.ev, TRUE))
    /\ wr' = [wr EXCEPT !.pc = "idle"]
    /\ UNCHANGED <<mem, owner, read_pos, crashed, rd>>

\* what a load of n bytes at off may return: the bytes there, or, past the
\* allocation, bytes of the memory's real owner
Loads(off, n) ==
    {Load(mem, off, n)} \cup
    (IF off + n > Cap
     THEN {[i \in 1..n |-> IF off + i - 1 >= Cap THEN g ELSE mem[off + i - 1]] :
              g \in Garbage}
     ELSE {})

Taint(off, n) == rd.tainted \/ ~Published(rd.first) \/ Foreign(owner, off, n, rd.first)

\* lines 145-150: the two cursor loads and the emptiness check
RBegin ==
    /\ ~crashed
    /\ rd.pc = "idle"
    /\ rd.calls < MaxConcReads
    /\ IF read_pos = write_pos
       THEN /\ trace' = Append(trace, Call("read", NoEvent, FALSE))
            /\ rd' = [rd EXCEPT !.calls = @ + 1]
       ELSE /\ rd' = [ReaderIdle EXCEPT !.pc = "ld_total", !.calls = rd.calls + 1,
                                        !.pos = read_pos, !.first = owner[read_pos]]
            /\ UNCHANGED trace
    /\ UNCHANGED <<mem, owner, write_pos, read_pos, crashed, wr>>

\* The value a load leaves in the reader's local: a little-endian integer
\* (lines 160, 164, 175), the bytes copied (lines 166-171, 177-182), or
\* nothing kept (line 156, total_size is never used).
Convert(conv, bytes) ==
    CASE conv = "le" -> FromLE(bytes)
      [] conv = "bytes" -> bytes
      [] OTHER -> rd.pos

\* one load of read(): n bytes at off into the local `field`; `used` says
\* whether the value read goes into the event or its layout
RLoad(from, to, off, n, typed, used, field, conv) ==
    /\ ~crashed
    /\ rd.pc = from
    /\ IF off + n > MemTop
       THEN Crash("read_fault", NoEvent)
       ELSE \/ \E bytes \in Loads(off, n) :
                 /\ rd' = [rd EXCEPT !.pc = to, ![field] = Convert(conv, bytes),
                                     !.tainted = IF used THEN Taint(off, n) ELSE @]
                 /\ UNCHANGED <<mem, owner, write_pos, read_pos, crashed, trace, wr>>
            \/ /\ \/ typed /\ MayFault(off, n)
                  \/ off + n > Cap
               /\ Crash("read_fault", NoEvent)


\* line 156 (the value is not used)
RLoadTotal == RLoad("ld_total", "ld_ts", rd.pos, 4, TRUE, FALSE, "pos", "keep")
\* line 160
RLoadTimestamp == RLoad("ld_ts", "ld_dlen", rd.pos + 4, 8, TRUE, TRUE, "timestamp", "le")
\* line 164
RLoadDataLen == RLoad("ld_dlen", "cp_data", rd.pos + 12, 4, TRUE, TRUE, "data_len", "le")
\* lines 166-171
RCopyData == RLoad("cp_data", "ld_nlen", rd.pos + 16, rd.data_len, FALSE, TRUE, "data", "bytes")
\* line 175
RLoadNameLen ==
    RLoad("ld_nlen", "cp_name", rd.pos + 16 + rd.data_len, 4, TRUE, TRUE,
          "name_len", "le")
\* lines 177-182
RCopyName ==
    RLoad("cp_name", "publish", rd.pos + 20 + rd.data_len, rd.name_len, FALSE,
          TRUE, "name", "bytes")

\* lines 186-195
RPublish ==
    /\ ~crashed
    /\ rd.pc = "publish"
    /\ read_pos' = Publish(rd.pos + 20 + rd.data_len + rd.name_len)
    /\ trace' = Append(trace,
           ReadCall(MidiEvent(rd.data, rd.timestamp, FromUtf8Lossy(rd.name)),
                    ~rd.tainted))
    /\ rd' = [rd EXCEPT !.pc = "idle"]
    /\ UNCHANGED <<mem, owner, write_pos, crashed, wr>>

(***************************************************************************)
(*                          MPE init tracker                               *)
(***************************************************************************)
\* timestamps are multiples of 1/TimeRes seconds, from 0 to MaxTime
TimeRes == 2
MaxTime == 5

\* `timeout: 1.0`
Timeout == 1 * TimeRes

MCM_SET_ZONE == 2
MCM_SET_BEND_RANGE == 3
ALL_NOTES_OFF == 123
RESET_ALL_CONTROLLERS == 121

\* message_type: u8; 0 stands for every byte the match does not name
MessageTypes == {ALL_NOTES_OFF, RESET_ALL_CONTROLLERS, MCM_SET_ZONE,
                 MCM_SET_BEND_RANGE, 0}
Timestamps == 0..MaxTime

MpeInitState == {"NotInitialized", "AllNotesOff", "ControllersReset",
                 "ZoneConfigured", "BendRangeSet", "Ready"}

\* the timeout check of lines 37-39
TimedOutReversed(st, last, ts) ==
    last - ts > Timeout /\ st # "NotInitialized" /\ st # "Ready"
TimedOutNoReadyGuard(st, last, ts) ==
    ts - last > Timeout /\ st # "NotInitialized"
TimedOut(st, last, ts) ==
    ts - last > Timeout /\ st # "NotInitialized" /\ st # "Ready"

\* the match of lines 46-66: the new state, or "Unexpected" for the `_` arm
MatchSkipsReset(st, message_type) ==
    CASE st = "NotInitialized" /\ message_type = ALL_NOTES_OFF -> "AllNotesOff"
      [] st = "AllNotesOff" /\ message_type = RESET_ALL_CONTROLLERS -> "ControllersReset"
      [] st = "AllNotesOff" /\ message_type = MCM_SET_ZONE -> "ZoneConfigured"
      [] st = "ControllersReset" /\ message_type = MCM_SET_ZONE -> "ZoneConfigured"
      [] st = "ZoneConfigured" /\ message_type = MCM_SET_BEND_RANGE -> "Ready"
      [] OTHER -> "Unexpected"
MatchBendRangeSet(st, message_type) ==
    CASE st = "NotInitialized" /\ message_type = ALL_NOTES_OFF -> "AllNotesOff"
      [] st = "AllNotesOff" /\ message_type = RESET_ALL_CONTROLLERS -> "ControllersReset"
      [] st = "ControllersReset" /\ message_type = MCM_SET_ZONE -> "ZoneConfigured"
      [] st = "ZoneConfigured" /\ message_type = MCM_SET_BEND_RANGE -> "BendRangeSet"
      [] OTHER -> "Unexpected"
Match(st, message_type) ==
    CASE st = "NotInitialized" /\ message_type = ALL_NOTES_OFF -> "AllNotesOff"
      [] st = "AllNotesOff" /\ message_type = RESET_ALL_CONTROLLERS -> "ControllersReset"
      [] st = "ControllersReset" /\ message_type = MCM_SET_ZONE -> "ZoneConfigured"
      [] st = "ZoneConfigured" /\ message_type = MCM_SET_BEND_RANGE -> "Ready"
      [] OTHER -> "Unexpected"

\* MpeInitTracker::is_initialized
is_initialized == state = "Ready"

\* ---- ghosts
\* the handshake of the claims: the four messages in their order
Handshake == <<ALL_NOTES_OFF, RESET_ALL_CONTROLLERS, MCM_SET_ZONE, MCM_SET_BEND_RANGE>>

\* the state the handshake is in after n of its messages
MpeInitStateAfter(n) ==
    <<"AllNotesOff", "ControllersReset", "ZoneConfigured", "Ready">>[n]

\* a timeout reset, in `accepted`
ResetMark == 0 - 1

LastFour(q) == IF Len(q) <= 4 THEN q ELSE SubSeq(q, Len(q) - 3, Len(q))

\* How far the calls so far have fed the handshake: n messages of it, in
\* order, the first in NotInitialized, each at most Timeout after the one
\* before; ok says they all returned Ok.
RunAfter(run, pre, message_type, ts, res) ==
    IF run.n >= 1 /\ run.n < 4 /\ message_type = Handshake[run.n + 1]
       /\ ts - run.ts <= Timeout
    THEN [n |-> run.n + 1, ok |-> run.ok /\ res = "Ok", ts |-> ts]
    ELSE IF pre = "NotInitialized" /\ message_type = Handshake[1]
    THEN [n |-> 1, ok |-> res = "Ok", ts |-> ts]
    ELSE [n |-> 0, ok |-> TRUE, ts |-> 0]

MpeInit ==
    /\ state = "NotInitialized"
    /\ last_message_time = 0
    /\ mpe_call = [seq |-> 0, msg |-> 0, ts |-> 0, prev_ts |-> 0, res |-> "none",
                   pre |-> "NotInitialized"]
    /\ hs_run = [n |-> 0, ok |-> TRUE, ts |-> 0]
    /\ accepted = << >>

Record(message_type, ts, res) ==
    /\ mpe_call' = [seq |-> 1 - mpe_call.seq, msg |-> message_type, ts |-> ts,
                    prev_ts |-> mpe_call.ts, res |-> res, pre |-> state]
    /\ hs_run' = RunAfter(hs_run, state, message_type, ts, res)
    /\ accepted' = CASE res = "Ok" -> LastFour(Append(accepted, message_type))
                     [] res = "TimingError" -> LastFour(Append(accepted, ResetMark))
                     [] OTHER -> accepted

\* MpeInitTracker::process_message
ProcessMessage(message_type, timestamp) ==
    IF TimedOut(state, last_message_time, timestamp)
    THEN /\ state' = "NotInitialized"
         /\ UNCHANGED last_message_time
         /\ Record(message_type, timestamp, "TimingError")
    ELSE /\ last_message_time' = timestamp
         /\ IF Match(state, message_type) # "Unexpected"
            THEN /\ state' = Match(state, message_type)
                 /\ Record(message_type, timestamp, "Ok")
            ELSE /\ UNCHANGED state
                 /\ Record(message_type, timestamp, "ProcessingError")

(***************************************************************************)
(*                          Note tracker                                   *)
(***************************************************************************)
\* number of tracker calls explored in one behaviour
MaxTrkOps == 4

\* (note, channel) arguments: three keys in range, two notes on one channel
\* and one on another, then a note and a channel out of range
TrkKeys == {<<60, 0>>, <<61, 0>>, <<60, 1>>, <<128, 0>>, <<60, 16>>}
TrkChannels == {0, 1}
\* velocity: u8, the last one out of range
TrkVelocities == {0, 100, 128}
\* timestamp: f64; calls may come with timestamps in any order
TrkTimes == {0, 1}

\* pitch_bend, pressure and timbre are f64; the model counts them in units of
\* 1/8192, velocity (`velocity as f64 / 127.0`) in units of 1/127.
TimbreDefault == 4096
ExprValues == {8192}

\* lines 64-73
NoteExpression(note, channel, velocity, timestamp) ==
    [note |-> note, channel |-> channel, velocity |-> velocity,
     pitch_bend |-> 0, pressure |-> 0, timbre |-> TimbreDefault,
     start_time |-> timestamp, last_update |-> timestamp]

\* HashMap<(u8, u8), NoteExpression>: the set of its <<key, value>> entries
Key(note, channel) == <<note, channel>>
Keys(map) == {e[1] : e \in map}
Get(map, k) == (CHOOSE e \in map : e[1] = k)[2]

\* HashMap::insert / HashMap::remove
HashMapPush(map, k, v) == map \cup {<<k, v>>}
HashMapInsert(map, k, v) == {e \in map : e[1] # k} \cup {<<k, v>>}
HashMapRemove(map, k) == {e \in map : e[1] # k}

\* values_mut() without the test on the channel
UpdateChannelAll(map, channel, field, value, timestamp) ==
    {<<e[1], [e[2] EXCEPT ![field] = value, !.last_update = timestamp]>> : e \in map}

\* values_mut() with the `if expr.channel == channel` of lines 91-96 / 107-112
UpdateChannel(map, channel, field, value, timestamp) ==
    {<<e[1], IF e[2].channel = channel
             THEN [e[2] EXCEPT ![field] = value, !.last_update = timestamp]
             ELSE e[2]>> : e \in map}

\* what a call other than get_stats returns
NoStats == [res |-> "none"]

\* ghost: the last call, its arguments, and whether its key was active
TrkInit ==
    /\ active_notes = {}
    /\ history = << >>
    /\ trk_call = [n |-> 0, op |-> "none", note |-> 0, channel |-> 0,
                   value |-> 0, timestamp |-> 0, pre_active |-> FALSE,
                   stats |-> NoStats]

TrkCall(op, note, channel, value, timestamp) ==
    /\ trk_call.n < MaxTrkOps
    /\ trk_call' = [n |-> trk_call.n + 1, op |-> op, note |-> note,
                    channel |-> channel, value |-> value, timestamp |-> timestamp,
                    pre_active |-> Key(note, channel) \in Keys(active_notes),
                    stats |-> NoStats]

\* NoteTracker::note_on without the test of the velocity
NoteOnAnyVelocity(map, note, channel, velocity, timestamp) ==
    IF note > 127 \/ channel > 15
    THEN map
    ELSE HashMapInsert(map, Key(note, channel),
                       NoteExpression(note, channel, velocity, timestamp))

\* NoteTracker::note_on, as the map it leaves
NoteOn(map, note, channel, velocity, timestamp) ==
    IF note > 127 \/ channel > 15 \/ velocity > 127
    THEN map
    ELSE HashMapInsert(map, Key(note, channel),
                       NoteExpression(note, channel, velocity, timestamp))

\* NoteTracker::note_off archiving a note for a key that is not active
NoteOffArchivesInactive(map, hist, note, channel, timestamp) ==
    IF note > 127 \/ channel > 15
    THEN [active_notes |-> map, history |-> hist]
    ELSE IF Key(note, channel) \in Keys(map)
    THEN [active_notes |-> HashMapRemove(map, Key(note, channel)),
          history |-> Append(hist,
              [Get(map, Key(note, channel)) EXCEPT !.last_update = timestamp])]
    ELSE [active_notes |-> map,
          history |-> Append(hist, NoteExpression(note, channel, 0, timestamp))]

\* NoteTracker::note_off, as the map and the history it leaves
NoteOff(map, hist, note, channel, timestamp) ==
    IF note > 127 \/ channel > 15
    THEN [active_notes |-> map, history |-> hist]
    ELSE IF Key(note, channel) \in Keys(map)
    THEN [active_notes |-> HashMapRemove(map, Key(note, channel)),
          history |-> Append(hist,
              [Get(map, Key(note, channel)) EXCEPT !.last_update = timestamp])]
    ELSE [active_notes |-> map, history |-> hist]

\* NoteTracker::note_on
note_on(note, channel, velocity, timestamp) ==
    /\ TrkCall("note_on", note, channel, velocity, timestamp)
    /\ active_notes' = NoteOn(active_notes, note, channel, velocity, timestamp)
    /\ UNCHANGED history

\* NoteTracker::note_off
note_off(note, channel, timestamp) ==
    /\ TrkCall("note_off", note, channel, 0, timestamp)
    /\ active_notes' = NoteOff(active_notes, history, note, channel, timestamp).active_notes
    /\ history' = NoteOff(active_notes, history, note, channel, timestamp).history

\* NoteTracker::update_pitch_bend
update_pitch_bend(channel, value, timestamp) ==
    /\ TrkCall("update_pitch_bend", 0, channel, value, timestamp)
    /\ active_notes' = UpdateChannel(active_notes, channel, "pitch_bend", value, timestamp)
    /\ UNCHANGED history

\* update_pressure applied to every note of the channel
update_pressure_channel(note, channel, value, timestamp) ==
    /\ TrkCall("update_pressure", note, channel, value, timestamp)
    /\ active_notes' = UpdateChannel(active_notes, channel, "pressure", value, timestamp)
    /\ UNCHANGED history

\* NoteTracker::update_pressure
update_pressure(note, channel, value, timestamp) ==
    /\ TrkCall("update_pressure", note, channel, value, timestamp)
    /\ IF Key(note, channel) \in Keys(active_notes)
       THEN active_notes' = HashMapInsert(active_notes, Key(note, channel),
                [Get(active_notes, Key(note, channel))
                    EXCEPT !.pressure = value, !.last_update = timestamp])
       ELSE UNCHANGED active_notes
    /\ UNCHANGED history

\* NoteTracker::update_timbre
update_timbre(channel, value, timestamp) ==
    /\ TrkCall("update_timbre", 0, channel, value, timestamp)
    /\ active_notes' = UpdateChannel(active_notes, channel, "timbre", value, timestamp)
    /\ UNCHANGED history

\* ---- NoteTracker::get_stats.  Of ExpressionStats the model keeps
\* note_count, active_notes, polyphony, scale_detection and key_signature;
\* the f64 averages and ranges are not modelled.

\* lines 166-167: two entries of note_times for each note of history
NoteTimes(hist) ==
    [j \in 1..(2 * Len(hist)) |->
        LET note == hist[(j + 1) \div 2]
        IN  IF j % 2 = 1 THEN <<note.start_time, TRUE>>
                         ELSE <<note.last_update, FALSE>>]

\* line 179: slice::sort_by on the time alone; the sort is stable, entries
\* of equal time keep the order in which they were pushed
RECURSIVE SortByTime(_)
SortByTime(s) ==
    IF s = << >> THEN << >>
    ELSE LET rest == SortByTime(SubSeq(s, 1, Len(s) - 1))
             e == s[Len(s)]
             k == Cardinality({i \in DOMAIN rest : rest[i][1] <= e[1]})
         IN  SubSeq(rest, 1, k) \o <<e>> \o SubSeq(rest, k + 1, Len(rest))

\* active_count and max_simultaneous are usize.  A usize value is kept as a
\* signed representative: c < 0 stands for 2^64 + c, the value a wrapping
\* subtraction leaves.
ULess(a, b) == IF (a < 0) = (b < 0) THEN a < b ELSE b < 0
UMax(a, b) == IF ULess(a, b) THEN b ELSE a

\* lines 180-187 from entry i on, in a build without overflow checks
RECURSIVE Sweep(_, _, _, _, _)
Sweep(times, i, active_count, max_simultaneous, underflow) ==
    IF i > Len(times)
    THEN [polyphony |-> max_simultaneous, underflow |-> underflow]
    ELSE IF times[i][2]
    THEN Sweep(times, i + 1, active_count + 1,
               UMax(max_simultaneous, active_count + 1), underflow)
    ELSE Sweep(times, i + 1, active_count - 1, max_simultaneous,
               underflow \/ active_count = 0)

\* lines 153, 175: note_histogram, indexed 0..11
Histogram(hist) ==
    [pc \in 0..11 |-> Cardinality({i \in DOMAIN hist : hist[i].note % 12 = pc})]

major_pattern == <<2, 2, 1, 2, 2, 2, 1>>
minor_pattern == <<2, 1, 2, 2, 1, 2, 2>>

\* lines 216-225: the number of pitch classes present that `pattern` contains
PatternMatch(histogram, pattern) ==
    Cardinality({i \in 0..11 : histogram[i] > 0 /\ \E j \in DOMAIN pattern : pattern[j] = i})

\* detect_scale
detect_scale(histogram) ==
    LET major_match == PatternMatch(histogram, major_pattern)
        minor_match == PatternMatch(histogram, minor_pattern)
    IN  IF major_match > minor_match THEN "Major"
        ELSE IF minor_match > major_match THEN "Minor"
        ELSE "Unknown"

note_names == <<"C", "C#", "D", "D#", "E", "F", "F#", "G", "G#", "A", "A#", "B">>

\* lines 241-246 from index `note` on
RECURSIVE KeyLoop(_, _, _, _)
KeyLoop(histogram, note, max_count, key_note) ==
    IF note > 11 THEN key_note
    ELSE IF histogram[note] > max_count
    THEN KeyLoop(histogram, note + 1, histogram[note], note)
    ELSE KeyLoop(histogram, note + 1, max_count, key_note)

\* detect_key
detect_key(histogram) == note_names[KeyLoop(histogram, 0, 0, 0) + 1]

\* get_stats as the set of its outcomes.  Where `active_count -= 1` goes
\* below zero a build with overflow checks panics and a build without them
\* goes on with the wrapped value.
GetStats(map, hist) ==
    IF hist = << >>
    THEN {[res |-> "ok", underflow |-> FALSE, note_count |-> 0,
           active_notes |-> Cardinality(map), polyphony |-> 0,
           scale_detection |-> "", key_signature |-> ""]}
    ELSE LET sw == Sweep(SortByTime(NoteTimes(hist)), 1, 0, 0, FALSE)
             ok == [res |-> "ok", underflow |-> sw.underflow,
                    note_count |-> Len(hist),
                    active_notes |-> Cardinality(map),
                    polyphony |-> sw.polyphony,
                    scale_detection |-> detect_scale(Histogram(hist)),
                    key_signature |-> detect_key(Histogram(hist))]
         IN  IF sw.underflow
             THEN {ok, [res |-> "panic", underflow |-> TRUE]}
             ELSE {ok}

\* NoteTracker::get_stats
get_stats ==
    /\ \E r \in GetStats(active_notes, history) :
          trk_call' = [trk_call EXCEPT !.op = "get_stats", !.stats = r]
    /\ UNCHANGED <<active_notes, history>>

(***************************************************************************)
(*                          MPE zone manager                               *)
(***************************************************************************)
\* member_count: u8; the counts a Set-Zone message carries (0..15) at their
\* ends and around the place where the two zones meet, then counts only a
\* direct caller can pass
MemberCounts == {0, 1, 5, 7, 8, 15, 16, 17, 255}
\* bend_range: f64, in semitones
BendRanges == {12, 48}
DefaultBendRange == 2
\* channel: u8
ZoneChannels == 0..17

None == [is_some |-> FALSE]

\* a..=b collected into a Vec
RangeInclusive(a, b) == [i \in 1..(IF a <= b THEN b - a + 1 ELSE 0) |-> a + i - 1]

Contains(seq, x) == \E i \in DOMAIN seq : seq[i] = x

\* u8 arithmetic as a build without overflow checks computes it
WrapU8(x) == x % 256

\* `member_count+1` (line 31) and `16-member_count` (line 40) leave u8
Overflows(is_lower, member_count) ==
    IF is_lower THEN member_count + 1 > 255 ELSE 16 - member_count < 0

\* line 31
LowerMembers(member_count) == RangeInclusive(2, WrapU8(member_count + 1))

\* line 40 with the lower end one too low
UpperMembersOffByOne(member_count) == RangeInclusive(WrapU8(15 - member_count), 15)

\* line 40
UpperMembers(member_count) == RangeInclusive(WrapU8(16 - member_count), 15)

\* lines 29-47
MpeZone(is_lower, member_count, bend_range) ==
    [is_some |-> TRUE,
     master_channel |-> IF is_lower THEN 1 ELSE 16,
     member_channels |-> IF is_lower THEN LowerMembers(member_count)
                                     ELSE UpperMembers(member_count),
     pitch_bend_range |-> bend_range,
     is_active |-> TRUE]

ZoneCall(op, is_lower, member_count, bend_range, channel, res, flag, num) ==
    zone_call' = [seq |-> 1 - zone_call.seq, op |-> op, is_lower |-> is_lower,
                  member_count |-> member_count, bend_range |-> bend_range,
                  channel |-> channel, res |-> res, flag |-> flag, num |-> num,
                  \* the configuration a configure_zone call found
                  pre |-> IF op = "configure_zone"
                          THEN <<lower_zone, upper_zone>> ELSE <<None, None>>]

\* MpeConfiguration::new
ZoneInit ==
    /\ lower_zone = None
    /\ upper_zone = None
    /\ zone_call = [seq |-> 0, op |-> "none", is_lower |-> FALSE,
                    member_count |-> 0, bend_range |-> 0, channel |-> 0,
                    res |-> "ok", flag |-> FALSE, num |-> 0,
                    pre |-> <<None, None>>]

\* configure_zone keeping the members the zone already had
configure_zone_merging(is_lower, member_count, bend_range) ==
    LET new == MpeZone(is_lower, member_count, bend_range)
        Merged(old) ==
            IF old.is_some
            THEN [new EXCEPT !.member_channels =
                     SelectSeq(old.member_channels,
                               LAMBDA c : ~Contains(new.member_channels, c))
                     \o new.member_channels]
            ELSE new
    IN  \/ /\ Overflows(is_lower, member_count)
           /\ ZoneCall("configure_zone", is_lower, member_count, bend_range, 0,
                       "panic", FALSE, 0)
           /\ UNCHANGED <<lower_zone, upper_zone>>
        \/ /\ ZoneCall("configure_zone", is_lower, member_count, bend_range, 0,
                       "ok", FALSE, 0)
           /\ IF is_lower
              THEN /\ lower_zone' = Merged(lower_zone)
                   /\ UNCHANGED upper_zone
              ELSE /\ upper_zone' = Merged(upper_zone)
                   /\ UNCHANGED lower_zone

\* MpeConfiguration::configure_zone.  Where the u8 arithmetic overflows, a
\* build with overflow checks panics before anything is assigned and a build
\* without them goes on with the wrapped value.
configure_zone(is_lower, member_count, bend_range) ==
    \/ /\ Overflows(is_lower, member_count)
       /\ ZoneCall("configure_zone", is_lower, member_count, bend_range, 0,
                   "panic", FALSE, 0)
       /\ UNCHANGED <<lower_zone, upper_zone>>
    \/ /\ ZoneCall("configure_zone", is_lower, member_count, bend_range, 0,
                   "ok", FALSE, 0)
       /\ IF is_lower
          THEN /\ lower_zone' = MpeZone(is_lower, member_count, bend_range)
               /\ UNCHANGED upper_zone
          ELSE /\ upper_zone' = MpeZone(is_lower, member_count, bend_range)
               /\ UNCHANGED lower_zone

\* lines 57-58 / 59-60: map_or(false, |zone| ..)
InZone(zone, channel) ==
    /\ zone.is_some
    /\ zone.is_active
    /\ Contains(zone.member_channels, channel)

IsMasterOf(zone, channel) ==
    /\ zone.is_some
    /\ zone.is_active
    /\ zone.master_channel = channel

\* MpeConfiguration::is_mpe_channel
is_mpe_channel(channel) ==
    /\ ZoneCall("is_mpe_channel", FALSE, 0, 0, channel, "ok",
                InZone(lower_zone, channel) \/ InZone(upper_zone, channel), 0)
    /\ UNCHANGED <<lower_zone, upper_zone>>

\* MpeConfiguration::is_master_channel
is_master_channel(channel) ==
    /\ ZoneCall("is_master_channel", FALSE, 0, 0, channel, "ok",
                IsMasterOf(lower_zone, channel) \/ IsMasterOf(upper_zone, channel), 0)
    /\ UNCHANGED <<lower_zone, upper_zone>>

\* lines 71-83 with the two blocks in the other order
BendRangeOfUpperFirst(lower, upper, channel) ==
    IF IsMasterOf(upper, channel) \/ InZone(upper, channel)
    THEN upper.pitch_bend_range
    ELSE IF IsMasterOf(lower, channel) \/ InZone(lower, channel)
    THEN lower.pitch_bend_range
    ELSE DefaultBendRange

\* lines 71-83
BendRangeOf(lower, upper, channel) ==
    IF IsMasterOf(lower, channel) \/ InZone(lower, channel)
    THEN lower.pitch_bend_range
    ELSE IF IsMasterOf(upper, channel) \/ InZone(upper, channel)
    THEN upper.pitch_bend_range
    ELSE DefaultBendRange

\* MpeConfiguration::get_bend_range
get_bend_range(channel) ==
    /\ ZoneCall("get_bend_range", FALSE, 0, 0, channel, "ok", FALSE,
                BendRangeOf(lower_zone, upper_zone, channel))
    /\ UNCHANGED <<lower_zone, upper_zone>>

\* MpeConfiguration::set_zone_bend_range
set_zone_bend_range(is_lower, bend_range) ==
    /\ ZoneCall("set_zone_bend_range", is_lower, 0, bend_range, 0, "ok", FALSE, 0)
    /\ IF is_lower
       THEN /\ lower_zone' = IF lower_zone.is_some
                             THEN [lower_zone EXCEPT !.pitch_bend_range = bend_range]
                             ELSE lower_zone
            /\ UNCHANGED upper_zone
       ELSE /\ upper_zone' = IF upper_zone.is_some
                             THEN [upper_zone EXCEPT !.pitch_bend_range = bend_range]
                             ELSE upper_zone
            /\ UNCHANGED lower_zone

\* the loop of lines 99-105 from index i on: 0 when it runs to its end
RECURSIVE OverlapFrom(_, _, _)
OverlapFrom(lower_members, upper_members, i) ==
    IF i > Len(lower_members) THEN 0
    ELSE IF Contains(upper_members, lower_members[i]) THEN i
    ELSE OverlapFrom(lower_members, upper_members, i + 1)

\* the loop of lines 99-105 keeping the last channel found
LastOverlap(lower_members, upper_members) ==
    IF \E i \in DOMAIN lower_members : Contains(upper_members, lower_members[i])
    THEN CHOOSE i \in DOMAIN lower_members :
            /\ Contains(upper_members, lower_members[i])
            /\ \A j \in DOMAIN lower_members :
                  Contains(upper_members, lower_members[j]) => j <= i
    ELSE 0

FirstOverlap(lower_members, upper_members) ==
    OverlapFrom(lower_members, upper_members, 1)

\* MpeConfiguration::validate_zone_state
validate_zone_state ==
    /\ UNCHANGED <<lower_zone, upper_zone>>
    /\ IF lower_zone.is_some /\ upper_zone.is_some
       THEN LET i == FirstOverlap(lower_zone.member_channels,
                                  upper_zone.member_channels)
            IN  IF i # 0
                THEN ZoneCall("validate_zone_state", FALSE, 0, 0, 0, "InvalidData",
                              FALSE, lower_zone.member_channels[i])
                ELSE ZoneCall("validate_zone_state", FALSE, 0, 0, 0, "ok", FALSE, 0)
       ELSE ZoneCall("validate_zone_state", FALSE, 0, 0, 0, "ok", FALSE, 0)

(***************************************************************************)
(*                 Message decoder and clock estimator                     *)
(* f64 values of the clock estimator are exact fractions [n, d], d >= 0:   *)
(* d = 0 stands for +inf (n = 1), -inf (n = -1) and NaN (n = 0).  Rounding *)
(* and the sign of zero are not modelled.  Timestamps are whole seconds.   *)
(***************************************************************************)
MaxDecOps == 3

Abs(x) == IF x < 0 THEN 0 - x ELSE x

Sign(x) == IF x > 0 THEN 1 ELSE IF x < 0 THEN 0 - 1 ELSE 0

RECURSIVE Gcd(_, _)
Gcd(a, b) == IF b = 0 THEN a ELSE Gcd(b, a % b)

\* the f64 n/d
F(n, d) ==
    IF d = 0 THEN [n |-> Sign(n), d |-> 0]
    ELSE LET g == Gcd(Abs(n), Abs(d))
         IN  [n |-> Sign(d) * (n \div g), d |-> Abs(d) \div g]

FAdd(a, b) ==
    IF a.d = 0 /\ b.d = 0 THEN (IF a.n = b.n THEN a ELSE F(0, 0))
    ELSE IF a.d = 0 THEN a
    ELSE IF b.d = 0 THEN b
    ELSE F(a.n * b.d + b.n * a.d, a.d * b.d)

FNeg(a) == [n |-> 0 - a.n, d |-> a.d]
FSub(a, b) == FAdd(a, FNeg(b))
FMul(a, b) == F(a.n * b.n, a.d * b.d)
FDiv(a, b) ==
    IF b.d = 0 /\ a.d = 0 THEN F(0, 0)
    ELSE IF b.d = 0 THEN F(0, Abs(b.n))
    ELSE F(a.n * b.d * Sign(b.n), a.d * Abs(b.n))
FAbs(a) == [n |-> Abs(a.n), d |-> a.d]

\* data: the messages given to the decoder
TooLong == [i \in 1..1025 |-> IF i = 1 THEN 240 ELSE 0]

DecMessages ==
    { << >>,
      <<248>>, <<250>>, <<252>>, <<254>>,
      <<144>>, <<144, 60>>, <<144, 60, 100>>, <<144, 60, 0>>, <<144, 128, 100>>,
      <<128>>, <<128, 60>>, <<128, 60, 64>>, <<128, 128, 0>>,
      <<176>>, <<176, 1>>, <<176, 1, 64>>, <<176, 7, 64>>,
      <<224>>, <<224, 0>>, <<224, 0, 96>>, <<224, 255, 255>>,
      <<145, 60, 100>>,
      <<240, 126, 127, 6, 2, 5, 247>>,
      TooLong }

\* timestamp: f64
DecTimes == {0 - 1, 0, 1, 2}

MAX_MIDI_MESSAGE_SIZE == 1024
MIN_MIDI_MESSAGE_SIZE == 1

\* RustMidiStats, the fields the decoder works on
Stats ==
    [current_bpm |-> current_bpm, average_bpm |-> average_bpm, jitter |-> jitter,
     clock_count |-> clock_count, last_clock_time |-> last_clock_time,
     active_notes |-> active_notes, history |-> history]

\* Result<(), MidiError> with the stats the call leaves
Ok(stats) == [res |-> "Ok", stats |-> stats]
Err(kind, stats) == [res |-> kind, stats |-> stats]
\* a panic: nothing of the call's effect has happened where the decoder panics
Panic(stats) == [res |-> "panic", stats |-> stats]

\* process_timing_clock with clock_count counted only inside the `if`
process_timing_clock_counts_intervals(stats, timestamp) ==
    Ok([stats EXCEPT !.clock_count = IF stats.last_clock_time > 0 THEN @ + 1 ELSE @,
                     !.last_clock_time = timestamp])

\* process_timing_clock
process_timing_clock(stats, timestamp) ==
    LET count == stats.clock_count + 1
        interval == F(timestamp - stats.last_clock_time, 1)
        instant_bpm == FDiv(F(60, 1), FMul(interval, F(24, 1)))
        current == FAdd(FMul(stats.current_bpm, F(9, 10)), FMul(instant_bpm, F(1, 10)))
        average == FDiv(FAdd(FMul(stats.average_bpm, F(count - 1, 1)), instant_bpm),
                        F(count, 1))
        expected_interval == FDiv(F(60, 1), FMul(current, F(24, 1)))
        jit == FAbs(FSub(interval, expected_interval))
    IN  IF stats.last_clock_time > 0
        THEN Ok([stats EXCEPT !.clock_count = count,
                              !.current_bpm = current,
                              !.average_bpm = average,
                              !.jitter = FAdd(FMul(stats.jitter, F(9, 10)),
                                              FMul(jit, F(1, 10))),
                              !.last_clock_time = timestamp])
        ELSE Ok([stats EXCEPT !.clock_count = count,
                              !.last_clock_time = timestamp])

\* process_note_on without the test of lines 48-50
process_note_on_unchecked(stats, note, velocity, channel, timestamp) ==
    IF velocity > 0
    THEN Ok([stats EXCEPT !.active_notes =
                 NoteOn(stats.active_notes, note, channel, velocity, timestamp)])
    ELSE Ok([stats EXCEPT
                 !.active_notes = NoteOff(stats.active_notes, stats.history,
                                          note, channel, timestamp).active_notes,
                 !.history = NoteOff(stats.active_notes, stats.history,
                                     note, channel, timestamp).history])

\* process_note_on; the closure given to catch_unwind has nothing that panics
process_note_on(stats, note, velocity, channel, timestamp) ==
    IF note > 127 \/ channel > 15
    THEN Err("InvalidData", stats)
    ELSE IF velocity > 0
    THEN Ok([stats EXCEPT !.active_notes =
                 NoteOn(stats.active_notes, note, channel, velocity, timestamp)])
    ELSE Ok([stats EXCEPT
                 !.active_notes = NoteOff(stats.active_notes, stats.history,
                                          note, channel, timestamp).active_notes,
                 !.history = NoteOff(stats.active_notes, stats.history,
                                     note, channel, timestamp).history])

\* process_note_off
process_note_off(stats, note, velocity, channel, timestamp) ==
    IF note > 127 \/ channel > 15
    THEN Err("InvalidData", stats)
    ELSE Ok([stats EXCEPT
                 !.active_notes = NoteOff(stats.active_notes, stats.history,
                                          note, channel, timestamp).active_notes,
                 !.history = NoteOff(stats.active_notes, stats.history,
                                     note, channel, timestamp).history])

\* process_modulation_wheel, process_mpe_brightness, process_mpe_expression:
\* each computes `_normalized` and returns Ok(())
process_modulation_wheel(stats, value, channel, timestamp) == Ok(stats)
process_mpe_brightness(stats, value, channel, timestamp) == Ok(stats)
process_mpe_expression(stats, value, channel, timestamp) == Ok(stats)

\* process_cc
process_cc(stats, controller, value, channel, timestamp) ==
    CASE controller = 1 -> process_modulation_wheel(stats, value, channel, timestamp)
      [] controller = 74 -> process_mpe_brightness(stats, value, channel, timestamp)
      [] controller = 11 -> process_mpe_expression(stats, value, channel, timestamp)
      [] OTHER -> Ok(stats)

\* ((msb as u16) << 7) | (lsb as u16): bit 7 of lsb falls on bit 0 of msb
Combined(lsb, msb) ==
    msb * 128 + (lsb % 128) + (IF lsb >= 128 /\ msb % 2 = 0 THEN 128 ELSE 0)

\* process_pitch_bend; pitch_bend is counted in units of 1/8192
process_pitch_bend(stats, lsb, msb, channel, timestamp) ==
    Ok([stats EXCEPT !.active_notes =
           UpdateChannel(stats.active_notes, channel, "pitch_bend",
                         Combined(lsb, msb) - 8192, timestamp)])

\* process_start that also clears the tempo
process_start_clears_bpm(stats, timestamp) ==
    Ok([stats EXCEPT !.clock_count = 0, !.last_clock_time = timestamp,
                     !.current_bpm = F(0, 1)])

\* process_start
process_start(stats, timestamp) ==
    Ok([stats EXCEPT !.clock_count = 0, !.last_clock_time = timestamp])

\* process_stop doing what process_start does
process_stop_as_start(stats, timestamp) ==
    Ok([stats EXCEPT !.clock_count = 0, !.last_clock_time = timestamp])

\* process_stop
process_stop(stats, timestamp) == Ok(stats)

\* the arms of lines 17-19: data[1] and data[2] are indexed before the call
NoteOnArm(stats, data, timestamp) ==
    IF Len(data) < 3 THEN Panic(stats)
    ELSE process_note_on(stats, data[2], data[3], data[1] % 16, timestamp)

NoteOffArm(stats, data, timestamp) ==
    IF Len(data) < 3 THEN Panic(stats)
    ELSE process_note_off(stats, data[2], data[3], data[1] % 16, timestamp)

CcArm(stats, data, timestamp) ==
    IF Len(data) < 3 THEN Panic(stats)
    ELSE process_cc(stats, data[2], data[3], data[1] % 16, timestamp)

\* the arm of lines 20-26 taking the bytes that are missing as 0
PitchBendArmPadded(stats, data, timestamp) ==
    IF Len(data) >= 3
    THEN process_pitch_bend(stats, data[2], data[3], data[1] % 16, timestamp)
    ELSE Err("InvalidData",
             process_pitch_bend(stats, IF Len(data) >= 2 THEN data[2] ELSE 0, 0,
                                data[1] % 16, timestamp).stats)

\* the arm of lines 20-26
PitchBendArm(stats, data, timestamp) ==
    IF Len(data) >= 3
    THEN process_pitch_bend(stats, data[2], data[3], data[1] % 16, timestamp)
    ELSE Err("InvalidData", stats)

\* process_message (midi_processor.rs)
Decode(stats, data, timestamp) ==
    IF Len(data) = 0 THEN Err("InvalidData", stats)
    ELSE CASE data[1] = 248 -> process_timing_clock(stats, timestamp)
           [] data[1] = 144 -> NoteOnArm(stats, data, timestamp)
           [] data[1] = 128 -> NoteOffArm(stats, data, timestamp)
           [] data[1] = 176 -> CcArm(stats, data, timestamp)
           [] data[1] = 224 -> PitchBendArm(stats, data, timestamp)
           [] data[1] = 250 -> process_start(stats, timestamp)
           [] data[1] = 252 -> process_stop(stats, timestamp)
           [] OTHER -> Ok(stats)

\* RustMidiStats::new
StatsInit ==
    /\ current_bpm = F(0, 1)
    /\ average_bpm = F(0, 1)
    /\ jitter = F(0, 1)
    /\ clock_count = 0
    /\ last_clock_time = 0
    /\ dec_call = [n |-> 0, entry |-> "none", data |-> << >>, timestamp |-> 0,
                   res |-> "Ok", ret |-> TRUE, pulses |-> 0, timed |-> FALSE]

\* ghost: the call, its result, the number of Clock messages the decoder has
\* taken since the last Start it took, and whether it has taken a Clock or a
\* Start at all
DecCall(entry, data, timestamp, res, ret) ==
    /\ dec_call.n < MaxDecOps
    /\ dec_call' = [n |-> dec_call.n + 1, entry |-> entry, data |-> data,
                    timestamp |-> timestamp, res |-> res, ret |-> ret,
                    pulses |-> IF res = "rejected" \/ Len(data) = 0 THEN dec_call.pulses
                               ELSE IF data[1] = 248 THEN dec_call.pulses + 1
                               ELSE IF data[1] = 250 THEN 0
                               ELSE dec_call.pulses,
                    timed |-> \/ dec_call.timed
                              \/ /\ res # "rejected"
                                 /\ Len(data) > 0
                                 /\ data[1] \in {248, 250}]

Assign(stats) ==
    /\ current_bpm' = stats.current_bpm
    /\ average_bpm' = stats.average_bpm
    /\ jitter' = stats.jitter
    /\ clock_count' = stats.clock_count
    /\ last_clock_time' = stats.last_clock_time
    /\ active_notes' = stats.active_notes
    /\ history' = stats.history

\* process_message called from inside the crate
process_message(data, timestamp) ==
    LET r == Decode(Stats, data, timestamp)
    IN  /\ DecCall("process_message", data, timestamp, r.res, r.res = "Ok")
        /\ Assign(r.stats)

\* process_midi_message, the entry point (lib.rs): a panic of the decoder is
\* caught by catch_unwind and, like an Err, gives false
process_midi_message(data, timestamp) ==
    IF \/ Len(data) < MIN_MIDI_MESSAGE_SIZE
       \/ Len(data) > MAX_MIDI_MESSAGE_SIZE
       \/ timestamp < 0
    THEN /\ DecCall("process_midi_message", data, timestamp, "rejected", FALSE)
         /\ Assign(Stats)
    ELSE LET r == Decode(Stats, data, timestamp)
         IN  /\ DecCall("process_midi_message", data, timestamp, r.res, r.res = "Ok")
             /\ Assign(r.stats)

Init == RingInit /\ MpeInit /\ TrkInit /\ ZoneInit /\ StatsInit

RingNext ==
    \/ \E ev \in Events : Write(ev) /\ UNCHANGED <<mpeVars, trkVars, zoneVars, decVars>>
    \/ Read /\ UNCHANGED <<mpeVars, trkVars, zoneVars, decVars>>

SpecRing == Init /\ [][RingNext]_vars

ConcInit ==
    /\ Init
    /\ mem = [i \in 0..(MemTop - 1) |-> 255]

ConcNext ==
    \/ \E ev \in ConcEvents : WBegin(ev) /\ UNCHANGED <<mpeVars, trkVars, zoneVars, decVars>>
    \/ WStoreTotal /\ UNCHANGED <<mpeVars, trkVars, zoneVars, decVars>>
    \/ WStoreTimestamp /\ UNCHANGED <<mpeVars, trkVars, zoneVars, decVars>>
    \/ WStoreDataLen /\ UNCHANGED <<mpeVars, trkVars, zoneVars, decVars>>
    \/ WCopyData /\ UNCHANGED <<mpeVars, trkVars, zoneVars, decVars>>
    \/ WStoreNameLen /\ UNCHANGED <<mpeVars, trkVars, zoneVars, decVars>>
    \/ WCopyName /\ UNCHANGED <<mpeVars, trkVars, zoneVars, decVars>>
    \/ WPublish /\ UNCHANGED <<mpeVars, trkVars, zoneVars, decVars>>
    \/ RBegin /\ UNCHANGED <<mpeVars, trkVars, zoneVars, decVars>>
    \/ RLoadTotal /\ UNCHANGED <<mpeVars, trkVars, zoneVars, decVars>>
    \/ RLoadTimestamp /\ UNCHANGED <<mpeVars, trkVars, zoneVars, decVars>>
    \/ RLoadDataLen /\ UNCHANGED <<mpeVars, trkVars, zoneVars, decVars>>
    \/ RCopyData /\ UNCHANGED <<mpeVars, trkVars, zoneVars, decVars>>
    \/ RLoadNameLen /\ UNCHANGED <<mpeVars, trkVars, zoneVars, decVars>>
    \/ RCopyName /\ UNCHANGED <<mpeVars, trkVars, zoneVars, decVars>>
    \/ RPublish /\ UNCHANGED <<mpeVars, trkVars, zoneVars, decVars>>

SpecRingConc == ConcInit /\ [][ConcNext]_vars

MpeNext ==
    \E message_type \in MessageTypes, timestamp \in Timestamps :
        ProcessMessage(message_type, timestamp) /\ UNCHANGED <<ringVars, trkVars, zoneVars, decVars>>

MpeSpecInit ==
    /\ Init
    /\ mem = [i \in 0..(MemTop - 1) |-> 0]

SpecMpe == MpeSpecInit /\ [][MpeNext]_vars

TrkNext ==
    \/ \E k \in TrkKeys, v \in TrkVelocities, t \in TrkTimes :
          note_on(k[1], k[2], v, t) /\ UNCHANGED <<ringVars, mpeVars, zoneVars, decVars>>
    \/ \E k \in TrkKeys, t \in TrkTimes :
          note_off(k[1], k[2], t) /\ UNCHANGED <<ringVars, mpeVars, zoneVars, decVars>>
    \/ \E c \in TrkChannels, x \in ExprValues, t \in TrkTimes :
          update_pitch_bend(c, x, t) /\ UNCHANGED <<ringVars, mpeVars, zoneVars, decVars>>
    \/ \E k \in TrkKeys, x \in ExprValues, t \in TrkTimes :
          update_pressure(k[1], k[2], x, t) /\ UNCHANGED <<ringVars, mpeVars, zoneVars, decVars>>
    \/ \E c \in TrkChannels, x \in ExprValues, t \in TrkTimes :
          update_timbre(c, x, t) /\ UNCHANGED <<ringVars, mpeVars, zoneVars, decVars>>

TrkSpecInit ==
    /\ Init
    /\ mem = [i \in 0..(MemTop - 1) |-> 0]

SpecTracker == TrkSpecInit /\ [][TrkNext]_vars

\* get_stats on the histories that note_on / note_off calls build
StatKeys == {<<60, 0>>, <<61, 0>>}
StatTimes == {0, 1, 2}
\* histories the tracker holds after earlier note_on / note_off calls
Archived(note, start_time, last_update) ==
    [NoteExpression(note, 0, 100, start_time) EXCEPT !.last_update = last_update]
SeedHistories ==
    {<< >>, <<Archived(61, 0, 1)>>, <<Archived(61, 0, 1), Archived(61, 1, 2)>>}

GetStatsNext ==
    \/ \E k \in StatKeys, t \in StatTimes :
          note_on(k[1], k[2], 100, t) /\ UNCHANGED <<ringVars, mpeVars, zoneVars, decVars>>
    \/ \E k \in StatKeys, t \in StatTimes :
          note_off(k[1], k[2], t) /\ UNCHANGED <<ringVars, mpeVars, zoneVars, decVars>>
    \/ get_stats /\ UNCHANGED <<ringVars, mpeVars, zoneVars, decVars>>

GetStatsInit ==
    /\ RingInit /\ MpeInit /\ ZoneInit /\ StatsInit
    /\ mem = [i \in 0..(MemTop - 1) |-> 0]
    /\ active_notes = {}
    /\ history \in SeedHistories
    /\ trk_call = [n |-> 0, op |-> "none", note |-> 0, channel |-> 0,
                   value |-> 0, timestamp |-> 0, pre_active |-> FALSE,
                   stats |-> NoStats]

SpecGetStats == GetStatsInit /\ [][GetStatsNext]_vars

ZoneNext ==
    \/ \E is_lower \in BOOLEAN, member_count \in MemberCounts, bend_range \in BendRanges :
          configure_zone(is_lower, member_count, bend_range)
             /\ UNCHANGED <<ringVars, mpeVars, trkVars, decVars>>
    \/ \E channel \in ZoneChannels :
          is_mpe_channel(channel) /\ UNCHANGED <<ringVars, mpeVars, trkVars, decVars>>
    \/ \E channel \in ZoneChannels :
          is_master_channel(channel) /\ UNCHANGED <<ringVars, mpeVars, trkVars, decVars>>
    \/ \E channel \in ZoneChannels :
          get_bend_range(channel) /\ UNCHANGED <<ringVars, mpeVars, trkVars, decVars>>
    \/ \E is_lower \in BOOLEAN, bend_range \in BendRanges :
          set_zone_bend_range(is_lower, bend_range)
             /\ UNCHANGED <<ringVars, mpeVars, trkVars, decVars>>
    \/ validate_zone_state /\ UNCHANGED <<ringVars, mpeVars, trkVars, decVars>>

ZoneSpecInit ==
    /\ Init
    /\ mem = [i \in 0..(MemTop - 1) |-> 0]

SpecZone == ZoneSpecInit /\ [][ZoneNext]_vars

DecNext ==
    \/ \E data \in DecMessages, timestamp \in DecTimes :
          process_message(data, timestamp)
             /\ UNCHANGED <<ringVars, mpeVars, zoneVars, trk_call>>
    \/ \E data \in DecMessages, timestamp \in DecTimes :
          process_midi_message(data, timestamp)
             /\ UNCHANGED <<ringVars, mpeVars, zoneVars, trk_call>>

DecSpecInit ==
    /\ Init
    /\ mem = [i \in 0..(MemTop - 1) |-> 0]

SpecDecoder == DecSpecInit /\ [][DecNext]_vars
(***************************************************************************)
(*                    Ring transport: properties                           *)
(***************************************************************************)
LastCall == trace[Len(trace)]

\* framed size of an event as the claims count it
FramedSize(ev) == 4 + 8 + 4 + Len(ev.data) + 4 + Len(ev.device_name)

RECURSIVE SumFramed(_, _)
SumFramed(t, n) == IF n = 0 THEN 0 ELSE FramedSize(t[n].ev) + SumFramed(t, n - 1)

\* the trace is n write() calls followed by n read() calls
WritesThenReads(n) ==
    /\ Len(trace) = 2 * n
    /\ \A i \in 1..n : trace[i].op = "write"
    /\ \A i \in (n + 1)..(2 * n) : trace[i].op = "read"

RoundTrip(n) ==
    \A i \in 1..n :
        /\ trace[i].ok
        /\ trace[n + i].ok
        /\ trace[n + i].ev = trace[i].ev

\* C1: N events of total framed size at most the capacity, written into a
\* fresh buffer and then read N times, come back identical and in order.
C1_RoundTripUpToCapacity ==
    \A n \in 1..MaxOps :
        (WritesThenReads(n) /\ SumFramed(trace, n) <= Cap) => RoundTrip(n)

\* (the same with total framed size strictly below the capacity)
RoundTripBelowCapacity ==
    \A n \in 1..MaxOps :
        (WritesThenReads(n) /\ SumFramed(trace, n) < Cap) => RoundTrip(n)

\* bytes from the write cursor forward to the read cursor, the whole ring
\* when they are equal
FreeBetween(w, r) == ((r - w - 1) % Cap) + 1

IsWriteCall(c) == c.op \in {"write", "write_fault"}

RECURSIVE Unread(_, _)
Unread(t, k) ==
    IF k = 0 THEN 0
    ELSE Unread(t, k - 1)
           + (IF t[k].op = "write" /\ t[k].ok THEN 1 ELSE 0)
           - (IF t[k].op = "read" /\ t[k].ok THEN 1 ELSE 0)

\* C3: read returns None exactly when no accepted event is unread, and a
\* read that returns None leaves both cursors unchanged.
C3_ReadNoneIffNothingUnread ==
    [][ ( /\ Len(trace') = Len(trace) + 1
          /\ trace'[Len(trace')].op = "read" )
        => /\ trace'[Len(trace')].ok <=> (Unread(trace, Len(trace)) > 0)
           /\ ~trace'[Len(trace')].ok
                => (write_pos' = write_pos /\ read_pos' = read_pos) ]_vars
\* C4: with one writer and one reader interleaved access by access, every
\* event read() returns is a frame that one write() stored completely and
\* published before the reader loaded any byte of it.
C4_ReaderSeesOnlyPublishedFrames ==
    \A k \in 1..Len(trace) :
        (trace[k].op = "read" /\ trace[k].ok)
            => /\ trace[k].clean
               /\ \E j \in 1..(k - 1) :
                     /\ trace[j].op = "write"
                     /\ trace[j].ok
                     /\ trace[j].ev = trace[k].ev
(***************************************************************************)
(*                    MPE init tracker: properties                         *)
(***************************************************************************)
\* the step is a call of process_message
IsMpeCall == mpe_call'.seq # mpe_call.seq

MidHandshake == {"AllNotesOff", "ControllersReset", "ZoneConfigured"}

\* the message each state expects next (none in Ready)
Expected(st) ==
    CASE st = "NotInitialized" -> ALL_NOTES_OFF
      [] st = "AllNotesOff" -> RESET_ALL_CONTROLLERS
      [] st = "ControllersReset" -> MCM_SET_ZONE
      [] st = "ZoneConfigured" -> MCM_SET_BEND_RANGE
      [] OTHER -> ResetMark

\* C5: from NotInitialized, the messages 0x7B, 0x79, Set-Zone, Set-Bend-Range
\* in this order, each at most the timeout after the one before, all return
\* Ok, and after the fourth the state is Ready and is_initialized() is true.
C5_HandshakeReachesReady ==
    /\ hs_run.n >= 1 => (hs_run.ok /\ state = MpeInitStateAfter(hs_run.n))
    /\ hs_run.n = 4 => (state = "Ready" /\ is_initialized)

C5_Witness ==
    /\ hs_run.n = 4
    /\ hs_run.ok
    /\ is_initialized
    /\ mpe_call.ts > Timeout
    /\ mpe_call.ts - mpe_call.prev_ts = Timeout

\* C6 (as claimed): a message that is not the one the current state expects
\* returns ProcessingError and leaves the state as it was.
C6_UnexpectedIsProcessingError ==
    [][ (IsMpeCall /\ mpe_call'.msg # Expected(state))
        => (mpe_call'.res = "ProcessingError" /\ state' = state) ]_vars

\* C6 (amended): a message that is not the one the current state expects,
\* and that comes at most the timeout after the previous message when the
\* state is AllNotesOff, ControllersReset or ZoneConfigured, returns
\* ProcessingError and leaves the state as it was.
C6_UnexpectedWithinTimeout ==
    [][ ( /\ IsMpeCall
          /\ mpe_call'.msg # Expected(state)
          /\ state \in MidHandshake => mpe_call'.ts - mpe_call.ts <= Timeout )
        => (mpe_call'.res = "ProcessingError" /\ state' = state) ]_vars

C6_Witness ==
    /\ mpe_call.res = "ProcessingError"
    /\ mpe_call.pre = "AllNotesOff"
    /\ mpe_call.msg = MCM_SET_ZONE
    /\ state = "AllNotesOff"

\* C7: in AllNotesOff, ControllersReset and ZoneConfigured a message stamped
\* more than the timeout after the previous message resets the state to
\* NotInitialized and returns TimingError; in NotInitialized and in Ready no
\* call returns TimingError or resets the state.
C7_TimeoutResetsMidHandshake ==
    [][ IsMpeCall =>
          /\ (state \in MidHandshake /\ mpe_call'.ts - mpe_call.ts > Timeout)
                => (state' = "NotInitialized" /\ mpe_call'.res = "TimingError")
          /\ state \in {"NotInitialized", "Ready"}
                => /\ mpe_call'.res # "TimingError"
                   /\ state = "Ready" => state' = "Ready" ]_vars

C7_Witness ==
    /\ mpe_call.res = "TimingError"
    /\ mpe_call.pre = "ZoneConfigured"
    /\ state = "NotInitialized"
    /\ mpe_call.ts - mpe_call.prev_ts > Timeout

\* C8: once the state is Ready every call leaves it Ready, whatever the
\* message and its timestamp, and is_initialized() is true exactly in Ready.
C8_ReadyIsTerminal ==
    [][ /\ state = "Ready" => state' = "Ready"
        /\ is_initialized' <=> (state' = "Ready")
        /\ is_initialized <=> (state = "Ready") ]_vars

C8_Witness ==
    /\ state = "Ready"
    /\ is_initialized
    /\ mpe_call.pre = "Ready"
    /\ mpe_call.ts - mpe_call.prev_ts > Timeout

\* C9: whenever the state is Ready, the four most recent accepted messages
\* are 0x7B, 0x79, Set-Zone, Set-Bend-Range in this order, with no timeout
\* reset among them.
C9_ReadyOnlyThroughHandshake ==
    state = "Ready" => accepted = Handshake

C9_Witness ==
    /\ state = "Ready"
    /\ mpe_call.res = "Ok"
    /\ mpe_call.msg = MCM_SET_BEND_RANGE
    /\ accepted = Handshake

(***************************************************************************)
(*                    Note tracker: properties                             *)
(***************************************************************************)
UniqueKeys(map) == \A e1, e2 \in map : e1[1] = e2[1] => e1 = e2

CallKey(c) == Key(c.note, c.channel)

\* C10: the active set never holds two entries for one (note, channel) key,
\* and a note_on (velocity 0..127) for a key that is active replaces that
\* entry by one with the new velocity and start_time, leaves the other
\* entries alone and adds nothing to history.
C10_OneEntryPerKey ==
    [][ /\ UniqueKeys(active_notes')
        /\ ( /\ trk_call'.op = "note_on"
             /\ trk_call'.value <= 127
             /\ CallKey(trk_call') \in Keys(active_notes) )
           => /\ history' = history
              /\ Keys(active_notes') = Keys(active_notes)
              /\ \A e \in active_notes' :
                    IF e[1] = CallKey(trk_call')
                    THEN e[2] = NoteExpression(trk_call'.note, trk_call'.channel,
                                               trk_call'.value, trk_call'.timestamp)
                    ELSE e \in active_notes ]_vars

C10_Witness ==
    /\ trk_call.op = "note_on"
    /\ trk_call.pre_active
    /\ trk_call.value = 100
    /\ trk_call.timestamp = 1
    /\ Cardinality(active_notes) = 2
    /\ Get(active_notes, CallKey(trk_call)).velocity = 100
    /\ Get(active_notes, CallKey(trk_call)).start_time = 1

IsNoteOffOfActive(c, map) ==
    /\ c.op = "note_off"
    /\ c.note <= 127
    /\ c.channel <= 15
    /\ CallKey(c) \in Keys(map)

Last(seq) == seq[Len(seq)]

\* C11: a note_off for a key that a valid note_on made active removes the key
\* from the active set and appends exactly one entry for it to history, whose
\* last_update is the note_off's timestamp and is not before its start_time.
C11_NoteOffArchivesOnce ==
    [][ IsNoteOffOfActive(trk_call', active_notes)
        => /\ CallKey(trk_call') \notin Keys(active_notes')
           /\ Len(history') = Len(history) + 1
           /\ SubSeq(history', 1, Len(history)) = history
           /\ Key(Last(history').note, Last(history').channel) = CallKey(trk_call')
           /\ Last(history').last_update = trk_call'.timestamp
           /\ Last(history').last_update >= Last(history').start_time ]_vars

\* The same without the order of last_update and start_time: the entry is
\* the active one with last_update set to the note_off's timestamp.
NoteOffArchivesSnapshot ==
    [][ IsNoteOffOfActive(trk_call', active_notes)
        => /\ active_notes' = HashMapRemove(active_notes, CallKey(trk_call'))
           /\ history' = Append(history,
                  [Get(active_notes, CallKey(trk_call'))
                      EXCEPT !.last_update = trk_call'.timestamp]) ]_vars

IsChannelUpdate(c) == c.op \in {"update_pitch_bend", "update_timbre"}

UpdatedField(c) == IF c.op = "update_pitch_bend" THEN "pitch_bend" ELSE "timbre"

\* C12: update_pitch_bend(C, v, t) and update_timbre(C, v, t) set pitch_bend,
\* respectively timbre, and last_update of every note active on channel C
\* and change nothing else: the notes active on other channels, the other
\* fields, the set of active keys and the history stay as they were.
C12_ChannelUpdateFrame ==
    [][ IsChannelUpdate(trk_call')
        => /\ history' = history
           /\ Keys(active_notes') = Keys(active_notes)
           /\ UniqueKeys(active_notes')
           /\ \A e \in active_notes :
                 Get(active_notes', e[1]) =
                    IF e[2].channel = trk_call'.channel
                    THEN [e[2] EXCEPT ![UpdatedField(trk_call')] = trk_call'.value,
                                      !.last_update = trk_call'.timestamp]
                    ELSE e[2] ]_vars

C12_Witness ==
    /\ trk_call.op = "update_pitch_bend"
    /\ trk_call.channel = 0
    /\ trk_call.timestamp = 1
    /\ \E e \in active_notes :
          /\ e[2].channel = 0
          /\ e[2].pitch_bend = 8192
          /\ e[2].start_time = 0
          /\ e[2].last_update = 1
    /\ \E e \in active_notes :
          /\ e[2].channel = 1
          /\ e[2].pitch_bend = 0
          /\ e[2].last_update = 0

\* the frame at pos as write() lays it out: 4 bytes of total_size and
\* total_size bytes after them
FrameEnd(m, pos) == pos + 4 + LoadU32(m, pos)

\* C29: every frame written stores total_size = 8 + 4 + data_len + 4 +
\* name_len, its own 4 bytes not counted; a successful write advances the
\* write cursor by total_size + 4 modulo capacity, and a successful read of
\* a frame advances the read cursor by the same amount.  The read is of a
\* frame that lies inside the region: what read() loads from beyond it is
\* not determined by the frame.
C29_FrameSizeAndCursors ==
    [][ Len(trace') = Len(trace) + 1 /\ LastCall'.ok
        => LET ev == LastCall'.ev
               size == 8 + 4 + Len(ev.data) + 4 + Len(ev.device_name)
           IN  IF LastCall'.op = "write"
               THEN /\ LoadU32(mem', write_pos) = size
                    /\ write_pos' = (write_pos + size + 4) % Cap
                    /\ read_pos' = read_pos
               ELSE /\ FrameEnd(mem, read_pos) <= Cap
                       => read_pos' = FrameEnd(mem, read_pos) % Cap
                    /\ write_pos' = write_pos ]_vars

\* two frames of 24 bytes fill the region: the second write and the second
\* read both bring their cursor from 24 round to 0
C29_Witness ==
    /\ Len(trace) = 4
    /\ trace[1].op = "write" /\ trace[1].ok /\ trace[1].ev = EvOn
    /\ trace[2].op = "read" /\ trace[2].ok /\ trace[2].ev = EvOn
    /\ trace[3].op = "write" /\ trace[3].ok /\ trace[3].ev = EvOff
    /\ trace[4].op = "read" /\ trace[4].ok /\ trace[4].ev = EvOff
    /\ LoadU32(mem, 24) = 20
    /\ write_pos = 0
    /\ read_pos = 0

\* the events of the successful calls of one kind, in call order
EventsOf(op) ==
    LET calls == SelectSeq(trace, LAMBDA c : c.op = op /\ c.ok)
    IN  [i \in DOMAIN calls |-> calls[i].ev]

IsPrefix(a, b) == Len(a) <= Len(b) /\ a = SubSeq(b, 1, Len(a))

\* C30: after any sequence of writes and reads the events returned by
\* successful reads are a prefix of the successfully written events in write
\* order: no accepted event is lost, duplicated, altered or overwritten
\* before it is read.
C30_ReadsArePrefixOfWrites == IsPrefix(EventsOf("read"), EventsOf("write"))

\* C31: every byte offset that write() stores to lies in [0, capacity): no
\* accepted frame touches an offset at or beyond capacity.
C31_StoresInsideRegion == \A i \in Cap..(MemTop - 1) : owner[i] = 0

\* C34: note_off for a (note, channel) key that is not active changes
\* neither the active set nor the history (the call returns nothing, so no
\* error is reported).
C34_NoteOffInactiveIsNoOp ==
    [][ ( /\ trk_call'.n = trk_call.n + 1
          /\ trk_call'.op = "note_off"
          /\ CallKey(trk_call') \notin Keys(active_notes) )
        => /\ active_notes' = active_notes
           /\ history' = history ]_vars

\* a note_off for key (61, 0) while only (60, 0) is active and one note is
\* archived
C34_Witness ==
    /\ trk_call.op = "note_off"
    /\ trk_call.note = 61
    /\ trk_call.channel = 0
    /\ ~trk_call.pre_active
    /\ Keys(active_notes) = {Key(60, 0)}
    /\ Len(history) = 1

\* C35: update_pressure(note, channel, v, t) changes the pressure and the
\* last_update of the one active entry keyed (note, channel) and nothing
\* else: every other active note, those on the same channel included, and
\* the history stay as they were; it changes nothing when the key is not
\* active.
C35_PressureUpdatesOneNote ==
    [][ ( /\ trk_call'.n = trk_call.n + 1
          /\ trk_call'.op = "update_pressure" )
        => /\ history' = history
           /\ Keys(active_notes') = Keys(active_notes)
           /\ \A e \in active_notes :
                 IF e[1] = CallKey(trk_call')
                 THEN <<e[1], [e[2] EXCEPT !.pressure = trk_call'.value,
                                          !.last_update = trk_call'.timestamp]>>
                         \in active_notes'
                 ELSE e \in active_notes' ]_vars

\* the pressure of (60, 0) was set at time 1 while (61, 0), on the same
\* channel, keeps its pressure and its time
C35_Witness ==
    /\ trk_call.op = "update_pressure"
    /\ trk_call.note = 60
    /\ trk_call.channel = 0
    /\ trk_call.timestamp = 1
    /\ Keys(active_notes) = {Key(60, 0), Key(61, 0)}
    /\ Get(active_notes, Key(60, 0)).pressure = 8192
    /\ Get(active_notes, Key(60, 0)).last_update = 1
    /\ Get(active_notes, Key(61, 0)).pressure = 0
    /\ Get(active_notes, Key(61, 0)).last_update = 0

(***************************************************************************)
(*                    get_stats: properties                                *)
(***************************************************************************)
\* get_stats was the last call and returned
Reported == trk_call.op = "get_stats" /\ trk_call.stats.res = "ok"

\* the notes of hist that sound at instant t
Sounding(hist, t) ==
    Cardinality({i \in DOMAIN hist :
                   hist[i].start_time <= t /\ t < hist[i].last_update})

MaxSounding(hist) ==
    LET instants == {hist[i].start_time : i \in DOMAIN hist}
                       \cup {hist[i].last_update : i \in DOMAIN hist}
        counts == {Sounding(hist, t) : t \in instants} \cup {0}
    IN  CHOOSE m \in counts : \A c \in counts : c <= m

\* C32: the polyphony get_stats reports is the maximum, over all instants,
\* of the number of history notes with start_time <= instant < last_update.
C32_PolyphonyIsMaxSounding ==
    Reported => trk_call.stats.polyphony = MaxSounding(history)

\* C33: for every history that note_on / note_off calls with arbitrary
\* timestamps build, the running count of the polyphony sweep never drops
\* below zero and get_stats completes.
C33_SweepNeverBelowZero ==
    trk_call.op = "get_stats"
        => trk_call.stats.res = "ok" /\ ~trk_call.stats.underflow

\* the histogram of a history that holds one note of each pitch class of pcs
OneOfEach(pcs) == [pc \in 0..11 |-> IF pc \in pcs THEN 1 ELSE 0]

\* the lowest of the pitch classes that occur most often
MostFrequent(histogram) ==
    CHOOSE pc \in 0..11 :
        \A q \in 0..11 :
            \/ histogram[q] < histogram[pc]
            \/ histogram[q] = histogram[pc] /\ pc <= q

KeyIsMostFrequent ==
    (Reported /\ history # << >>)
        => trk_call.stats.key_signature =
              note_names[MostFrequent(Histogram(history)) + 1]

\* C40: there is a non-empty history for which scale_detection is "Major"
\* and one for which it is "Minor", and key_signature is always the name of
\* the most frequent pitch class of history, the lowest winning ties.
C40_ScaleOutcomesAndKey ==
    /\ \E pcs \in (SUBSET (0..11)) \ {{}} : detect_scale(OneOfEach(pcs)) = "Major"
    /\ \E pcs \in (SUBSET (0..11)) \ {{}} : detect_scale(OneOfEach(pcs)) = "Minor"
    /\ KeyIsMostFrequent

\* (scale_detection is "Unknown" for every non-empty history)
ScaleIsAlwaysUnknown ==
    (Reported /\ history # << >>) => trk_call.stats.scale_detection = "Unknown"

\* (and for every set of pitch classes)
NoScaleForAnyPitchClasses ==
    trk_call.op = "none"
        => \A pcs \in SUBSET (0..11) : detect_scale(OneOfEach(pcs)) = "Unknown"

(***************************************************************************)
(*                    MPE zone manager: properties                         *)
(***************************************************************************)
Elems(seq) == {seq[i] : i \in DOMAIN seq}

Members(zone) == IF zone.is_some THEN Elems(zone.member_channels) ELSE {}

\* C13: configure_zone(is_lower, N, r), for every N whose range computation
\* stays inside u8, leaves the lower zone with master 1 and members exactly
\* 2..N+1, or the upper zone with master 16 and members exactly 16-N..15,
\* each once; and is_mpe_channel(ch) is true exactly for the channels in the
\* member set of a configured zone.
C13_ZoneMembersAndMembership ==
    [][ /\ ( /\ zone_call'.op = "configure_zone"
             /\ ~Overflows(zone_call'.is_lower, zone_call'.member_count) )
           => LET N == zone_call'.member_count
                  z == IF zone_call'.is_lower THEN lower_zone' ELSE upper_zone'
              IN  /\ zone_call'.res = "ok"
                  /\ z.is_some
                  /\ z.is_active
                  /\ z.master_channel = IF zone_call'.is_lower THEN 1 ELSE 16
                  /\ Elems(z.member_channels) =
                        IF zone_call'.is_lower THEN 2..(N + 1) ELSE (16 - N)..15
                  /\ Len(z.member_channels) = N
        /\ zone_call'.op = "is_mpe_channel"
           => ( zone_call'.flag <=>
                  zone_call'.channel \in Members(lower_zone) \cup Members(upper_zone) )
      ]_vars

C13_Witness ==
    /\ zone_call.op = "is_mpe_channel"
    /\ zone_call.channel = 6
    /\ zone_call.flag
    /\ lower_zone.is_some
    /\ lower_zone.member_channels = <<2, 3, 4, 5, 6>>
    /\ lower_zone.master_channel = 1
    /\ upper_zone.is_some
    /\ upper_zone.member_channels = <<9, 10, 11, 12, 13, 14, 15>>
    /\ upper_zone.master_channel = 16

InBoth(i) ==
    /\ lower_zone.is_some
    /\ upper_zone.is_some
    /\ i \in DOMAIN lower_zone.member_channels
    /\ lower_zone.member_channels[i] \in Members(upper_zone)

\* C14: validate_zone_state returns InvalidData naming the first channel, in
\* the order of the lower zone's members, that is also a member of the upper
\* zone, exactly when the two member sets intersect; it returns Ok otherwise
\* and never changes the configuration.
C14_ValidateNamesFirstOverlap ==
    [][ zone_call'.op = "validate_zone_state"
        => /\ lower_zone' = lower_zone
           /\ upper_zone' = upper_zone
           /\ IF Members(lower_zone) \cap Members(upper_zone) # {}
              THEN /\ zone_call'.res = "InvalidData"
                   /\ \E i \in DOMAIN lower_zone.member_channels :
                         /\ InBoth(i)
                         /\ \A j \in 1..(i - 1) : ~InBoth(j)
                         /\ zone_call'.num = lower_zone.member_channels[i]
              ELSE zone_call'.res = "ok" ]_vars

C14_Witness ==
    /\ zone_call.op = "validate_zone_state"
    /\ zone_call.res = "InvalidData"
    /\ zone_call.num = 8
    /\ Members(lower_zone) = 2..9
    /\ Members(upper_zone) = 8..15

\* C26: in every state reachable by configure_zone calls the member channel
\* sets of the lower and the upper zone do not overlap.
C26_ZonesNeverOverlap == Members(lower_zone) \cap Members(upper_zone) = {}

\* ch is the master or a member of an active zone
Belongs(zone, ch) ==
    /\ zone.is_some
    /\ zone.is_active
    /\ (ch = zone.master_channel \/ ch \in Elems(zone.member_channels))

\* C27: get_bend_range(ch) returns 2.0 for a channel that is neither master
\* nor member of an active zone, and otherwise the pitch_bend_range of the
\* zone that contains ch, the lower zone's when both contain it; it changes
\* nothing.
C27_BendRangeOfChannel ==
    [][ zone_call'.op = "get_bend_range"
        => LET ch == zone_call'.channel
           IN  /\ lower_zone' = lower_zone
               /\ upper_zone' = upper_zone
               /\ zone_call'.num =
                     IF Belongs(lower_zone, ch) THEN lower_zone.pitch_bend_range
                     ELSE IF Belongs(upper_zone, ch) THEN upper_zone.pitch_bend_range
                     ELSE 2 ]_vars

C27_Witness ==
    /\ zone_call.op = "get_bend_range"
    /\ zone_call.channel = 8
    /\ Belongs(lower_zone, 8)
    /\ Belongs(upper_zone, 8)
    /\ lower_zone.pitch_bend_range = 12
    /\ upper_zone.pitch_bend_range = 48
    /\ zone_call.num = 12

\* C28: a configure_zone call that returns leaves the zone it names with
\* the master, members, bend range and active flag computed from its
\* arguments alone, whatever the zone held before, and leaves the other zone
\* as it was.
C28_ConfigureReplacesNamedZone ==
    [][ (zone_call'.op = "configure_zone" /\ zone_call'.res = "ok")
        => LET c == zone_call'
               named == IF c.is_lower THEN lower_zone' ELSE upper_zone'
               w == IF c.is_lower THEN c.member_count + 1 ELSE 16 - c.member_count
               first == IF c.is_lower THEN 2 ELSE w % 256
               last  == IF c.is_lower THEN w % 256 ELSE 15
           IN  /\ named.is_some
               /\ named.is_active
               /\ named.master_channel = IF c.is_lower THEN 1 ELSE 16
               /\ named.pitch_bend_range = c.bend_range
               /\ Elems(named.member_channels) = first..last
               /\ Len(named.member_channels) = Cardinality(first..last)
               /\ IF c.is_lower THEN upper_zone' = upper_zone
                                ELSE lower_zone' = lower_zone ]_vars

\* a lower zone 2..9 at range 12 was replaced by 2..6 at range 48 while the
\* upper zone stayed configured
C28_Witness ==
    /\ zone_call.op = "configure_zone"
    /\ zone_call.res = "ok"
    /\ zone_call.is_lower
    /\ Members(zone_call.pre[1]) = 2..9
    /\ zone_call.pre[1].pitch_bend_range = 12
    /\ Members(zone_call.pre[2]) = 9..15
    /\ Members(lower_zone) = 2..6
    /\ lower_zone.pitch_bend_range = 48
    /\ upper_zone = zone_call.pre[2]

(***************************************************************************)
(*                    Message decoder: properties                          *)
(***************************************************************************)
\* the decoder was entered by the call that dec_call records
Decoded(c) == c.entry # "none" /\ c.res # "rejected"

StatusOf(c) == IF Len(c.data) = 0 THEN 0 - 1 ELSE c.data[1]

TooShort(c) ==
    \/ Len(c.data) = 0
    \/ StatusOf(c) \in {144, 128, 176, 224} /\ Len(c.data) < 3

\* C15: the decoder returns InvalidData, and does not fault, for empty input
\* and for a Note On, Note Off, Control Change or Pitch Bend of 1 or 2 bytes.
C15_ShortMessageIsInvalidData ==
    (Decoded(dec_call) /\ TooShort(dec_call)) => dec_call.res = "InvalidData"

\* The part of it that holds: empty input and a short Pitch Bend.
ShortPitchBendIsInvalidData ==
    ( /\ Decoded(dec_call)
      /\ Len(dec_call.data) = 0 \/ (StatusOf(dec_call) = 224 /\ Len(dec_call.data) < 3) )
    => dec_call.res = "InvalidData"

Handled == {248, 144, 128, 176, 224, 250}

\* C16: Stop (0xFC) and every message whose status byte has no handler
\* succeed and leave the clock statistics, the active notes, the history,
\* the zone configuration and the handshake state as they were.
C16_StopAndUnknownAreIgnored ==
    [][ ( /\ dec_call'.n # dec_call.n
          /\ Decoded(dec_call')
          /\ Len(dec_call'.data) > 0
          /\ StatusOf(dec_call') \notin Handled )
        => /\ dec_call'.res = "Ok"
           /\ dec_call'.ret
           /\ UNCHANGED <<clockVars, active_notes, history, lower_zone, upper_zone,
                          state, last_message_time>> ]_vars

C16_Witness ==
    /\ Decoded(dec_call)
    /\ dec_call.data = <<252>>
    /\ dec_call.res = "Ok"
    /\ clock_count = 2
    /\ current_bpm # F(0, 1)
    /\ last_clock_time # dec_call.timestamp

\* C17: a Note On or Note Off that reaches the decoder with note > 127 or
\* channel > 15 fails with InvalidData and leaves the active set and the
\* history unchanged.
C17_NoteOutOfRangeIsInvalidData ==
    [][ ( /\ dec_call'.n # dec_call.n
          /\ Decoded(dec_call')
          /\ StatusOf(dec_call') \in {144, 128}
          /\ Len(dec_call'.data) >= 3
          /\ dec_call'.data[2] > 127 \/ dec_call'.data[1] % 16 > 15 )
        => /\ dec_call'.res = "InvalidData"
           /\ ~dec_call'.ret
           /\ UNCHANGED <<active_notes, history>> ]_vars

C17_Witness ==
    /\ Decoded(dec_call)
    /\ dec_call.data = <<144, 128, 100>>
    /\ dec_call.res = "InvalidData"
    /\ active_notes # {}

\* C18: every Clock message (the single byte 0xF8) that the decoder takes
\* succeeds and adds exactly 1 to clock_count, with or without a previous
\* pulse timestamp, so that clock_count is the number of Clock messages taken
\* since the last Start (or since creation).
C18_ClockCountsEveryPulse ==
    [][ /\ ( /\ dec_call'.n # dec_call.n
             /\ Decoded(dec_call')
             /\ dec_call'.data = <<248>> )
           => /\ dec_call'.res = "Ok"
              /\ dec_call'.ret
              /\ clock_count' = clock_count + 1
        /\ clock_count' = dec_call'.pulses ]_vars

C18_Witness ==
    /\ Decoded(dec_call)
    /\ dec_call.data = <<248>>
    /\ dec_call.n = 3
    /\ clock_count = 1
    /\ dec_call.pulses = 1
    /\ last_clock_time = 0

\* C19: a Start message (0xFA) sets clock_count to 0 and last_clock_time to
\* its timestamp and leaves current_bpm, average_bpm, jitter, the note
\* tracker and the zone configuration unchanged.
C19_StartResetsCountersOnly ==
    [][ ( /\ dec_call'.n # dec_call.n
          /\ Decoded(dec_call')
          /\ StatusOf(dec_call') = 250 )
        => /\ dec_call'.res = "Ok"
           /\ clock_count' = 0
           /\ last_clock_time' = dec_call'.timestamp
           /\ UNCHANGED <<current_bpm, average_bpm, jitter, active_notes, history,
                          lower_zone, upper_zone>> ]_vars

C19_Witness ==
    /\ Decoded(dec_call)
    /\ dec_call.data = <<250>>
    /\ dec_call.timestamp = 1
    /\ clock_count = 0
    /\ last_clock_time = 1
    /\ current_bpm # F(0, 1)
    /\ average_bpm # F(0, 1)

\* C20: a call that fails (InvalidData, ProcessingError, a panic caught at
\* the entry point, a message the entry point turns away) leaves the clock
\* statistics, the active set and the history unchanged, so the messages
\* after it are processed from the state the failed one found.
C20_FailedCallChangesNothing ==
    [][ (dec_call'.n # dec_call.n /\ ~dec_call'.ret)
        => UNCHANGED <<clockVars, active_notes, history>> ]_vars

C20_Witness ==
    /\ dec_call.entry = "process_midi_message"
    /\ dec_call.data = <<224, 0>>
    /\ dec_call.res = "InvalidData"
    /\ ~dec_call.ret
    /\ active_notes # {}
    /\ clock_count = 1

\* the Set-Zone message F0 7E 7F 06 02 05 F7: lower zone, 5 member channels
SetZoneLower5 == <<240, 126, 127, 6, 2, 5, 247>>

\* C21: a well-formed MCM Set-Zone SysEx fed through the decoder configures
\* the zone its zone byte names and is presented to the handshake state
\* machine (which takes its timestamp as that of the last message).
C21_SysExReachesZoneManager ==
    [][ ( /\ dec_call'.n # dec_call.n
          /\ Decoded(dec_call')
          /\ dec_call'.data = SetZoneLower5 )
        => /\ lower_zone'.is_some
           /\ Members(lower_zone') = 2..6
           /\ last_message_time' = dec_call'.timestamp ]_vars

\* What the decoder does with it: the call succeeds and neither the zone
\* configuration nor the handshake state changes.
SysExIsIgnored ==
    [][ ( /\ dec_call'.n # dec_call.n
          /\ Decoded(dec_call')
          /\ dec_call'.data = SetZoneLower5 )
        => /\ dec_call'.res = "Ok"
           /\ UNCHANGED <<lower_zone, upper_zone, state, last_message_time>> ]_vars

\* C22: note_on with velocity 0 for a key has exactly the effect of note_off
\* for that key on the active set and the history, and leaves no active
\* entry with velocity 0.
C22_ZeroVelocityNoteOnIsNoteOff ==
    [][ ( /\ trk_call'.op = "note_on"
          /\ trk_call'.value = 0
          /\ trk_call'.note <= 127
          /\ trk_call'.channel <= 15 )
        => /\ active_notes' = HashMapRemove(active_notes, CallKey(trk_call'))
           /\ history' = IF CallKey(trk_call') \in Keys(active_notes)
                         THEN Append(history,
                                  [Get(active_notes, CallKey(trk_call'))
                                      EXCEPT !.last_update = trk_call'.timestamp])
                         ELSE history
           /\ \A e \in active_notes' : e[2].velocity # 0 ]_vars

\* The same for a Note On message with velocity byte 0 given to the decoder,
\* which holds: process_note_on calls note_off for it.
DecoderZeroVelocityIsNoteOff ==
    [][ ( /\ dec_call'.n # dec_call.n
          /\ Decoded(dec_call')
          /\ dec_call'.data = <<144, 60, 0>> )
        => /\ active_notes' = HashMapRemove(active_notes, Key(60, 0))
           /\ history' = IF Key(60, 0) \in Keys(active_notes)
                         THEN Append(history,
                                  [Get(active_notes, Key(60, 0))
                                      EXCEPT !.last_update = dec_call'.timestamp])
                         ELSE history
           /\ \A e \in active_notes' : e[2].velocity # 0 ]_vars

\* C23: note_on with note > 127, channel > 15 or velocity > 127 leaves the
\* active set and the history unchanged (the call has no result to report).
C23_OutOfRangeNoteOnIsDropped ==
    [][ ( /\ trk_call'.op = "note_on"
          /\ \/ trk_call'.note > 127
             \/ trk_call'.channel > 15
             \/ trk_call'.value > 127 )
        => UNCHANGED <<active_notes, history>> ]_vars

C23_Witness ==
    /\ trk_call.op = "note_on"
    /\ trk_call.value = 128
    /\ trk_call.note = 60
    /\ trk_call.channel = 0
    /\ trk_call.pre_active
    /\ Get(active_notes, Key(60, 0)).velocity = 100
    /\ Len(history) = 1

\* C24: a Control Change with controller 1, 11 or 74 changes the expression
\* state of the notes active on its channel (at the least their last_update,
\* when that differs from the message's timestamp), and a Control Change with
\* another controller succeeds and changes nothing.
C24_ControllersFeedTracker ==
    [][ ( /\ dec_call'.n # dec_call.n
          /\ Decoded(dec_call')
          /\ StatusOf(dec_call') = 176
          /\ Len(dec_call'.data) >= 3 )
        => IF dec_call'.data[2] \in {1, 11, 74}
           THEN /\ dec_call'.res = "Ok"
                /\ \A e \in active_notes :
                      ( /\ e[2].channel = dec_call'.data[1] % 16
                        /\ e[2].last_update # dec_call'.timestamp )
                      => e \notin active_notes'
           ELSE /\ dec_call'.res = "Ok"
                /\ UNCHANGED <<clockVars, active_notes, history, lower_zone,
                               upper_zone, state, last_message_time>> ]_vars

\* What holds: every Control Change of 3 bytes succeeds and changes nothing.
ControlChangeChangesNothing ==
    [][ ( /\ dec_call'.n # dec_call.n
          /\ Decoded(dec_call')
          /\ StatusOf(dec_call') = 176
          /\ Len(dec_call'.data) >= 3 )
        => /\ dec_call'.res = "Ok"
           /\ UNCHANGED <<clockVars, active_notes, history, lower_zone,
                          upper_zone, state, last_message_time>> ]_vars

IsPitchBend(c) == Decoded(c) /\ StatusOf(c) = 224 /\ Len(c.data) >= 3

\* (msb << 7 | lsb) - 8192, in units of 1/8192
BendOf(c) ==
    LET lsb == c.data[2]
        msb == c.data[3]
    IN  msb * 128 + (lsb % 128) + (IF lsb >= 128 /\ msb % 2 = 0 THEN 128 ELSE 0) - 8192

\* C25: a Pitch Bend message of at least 3 bytes, whatever its two data
\* bytes, stores ((msb << 7 | lsb) - 8192) / 8192 in every note active on
\* its channel, and that value lies in [-1, +1].
C25_PitchBendNormalized ==
    [][ (dec_call'.n # dec_call.n /\ IsPitchBend(dec_call'))
        => /\ dec_call'.res = "Ok"
           /\ \A e \in active_notes :
                 e[2].channel = dec_call'.data[1] % 16
                 => /\ Get(active_notes', e[1]).pitch_bend = BendOf(dec_call')
                    /\ Get(active_notes', e[1]).pitch_bend >= 0 - 8192
                    /\ Get(active_notes', e[1]).pitch_bend <= 8192 ]_vars

\* The same without the range, which holds.
PitchBendStored ==
    [][ (dec_call'.n # dec_call.n /\ IsPitchBend(dec_call'))
        => /\ dec_call'.res = "Ok"
           /\ Keys(active_notes') = Keys(active_notes)
           /\ \A e \in active_notes :
                 Get(active_notes', e[1]) =
                    IF e[2].channel = dec_call'.data[1] % 16
                    THEN [e[2] EXCEPT !.pitch_bend = BendOf(dec_call'),
                                      !.last_update = dec_call'.timestamp]
                    ELSE e[2] ]_vars

\* instant_bpm of a pulse that comes `interval` after the previous timestamp
InstantBpm(interval) == FDiv(F(60, 1), FMul(F(interval, 1), F(24, 1)))

\* C36: on a Clock pulse current_bpm, average_bpm and jitter are updated
\* exactly when a previous pulse or Start timestamp exists: the first pulse
\* after creation changes only clock_count and last_clock_time, and every
\* later pulse, whatever the earlier timestamps were (0 included), updates
\* the estimates from the interval to the previous timestamp.
C36_ClockUpdatesIffPreviousPulse ==
    [][ ( /\ dec_call'.n # dec_call.n
          /\ Decoded(dec_call')
          /\ dec_call'.data = <<248>> )
        => LET instant_bpm == InstantBpm(dec_call'.timestamp - last_clock_time)
           IN  /\ last_clock_time' = dec_call'.timestamp
               /\ UNCHANGED <<active_notes, history>>
               /\ IF dec_call.timed
                  THEN /\ current_bpm' = FAdd(FMul(current_bpm, F(9, 10)),
                                              FMul(instant_bpm, F(1, 10)))
                       /\ average_bpm' =
                             FDiv(FAdd(FMul(average_bpm, F(clock_count, 1)), instant_bpm),
                                  F(clock_count + 1, 1))
                  ELSE UNCHANGED <<current_bpm, average_bpm, jitter>> ]_vars

\* (the same with "the previous timestamp is greater than 0" for "a previous
\* pulse or Start exists")
ClockUpdatesIffLastTimePositive ==
    [][ ( /\ dec_call'.n # dec_call.n
          /\ Decoded(dec_call')
          /\ dec_call'.data = <<248>> )
        => LET instant_bpm == InstantBpm(dec_call'.timestamp - last_clock_time)
           IN  /\ last_clock_time' = dec_call'.timestamp
               /\ UNCHANGED <<active_notes, history>>
               /\ IF last_clock_time > 0
                  THEN /\ current_bpm' = FAdd(FMul(current_bpm, F(9, 10)),
                                              FMul(instant_bpm, F(1, 10)))
                       /\ average_bpm' =
                             FDiv(FAdd(FMul(average_bpm, F(clock_count, 1)), instant_bpm),
                                  F(clock_count + 1, 1))
                  ELSE UNCHANGED <<current_bpm, average_bpm, jitter>> ]_vars

\* a 3-byte Note On / Note Off for channel c (status 0x90 + c / 0x80 + c)
\* with a note in range was decoded
NoteOnFor(c) ==
    /\ Decoded(c)
    /\ Len(c.data) = 3
    /\ c.data[1] \in 144..159
    /\ c.data[2] <= 127
    /\ c.data[3] \in 1..127

NoteOffFor(c) ==
    /\ Decoded(c)
    /\ Len(c.data) = 3
    /\ c.data[1] \in 128..143
    /\ c.data[2] <= 127

\* C37: for each channel c in 0..15 a 3-byte Note On with status 0x90 + c,
\* note <= 127 and velocity 1..127 makes the key (note, c) active, and the
\* matching Note Off with status 0x80 + c removes it and archives it.
C37_EveryChannelIsDispatched ==
    [][ /\ (dec_call'.n # dec_call.n /\ NoteOnFor(dec_call'))
           => Key(dec_call'.data[2], dec_call'.data[1] - 144) \in Keys(active_notes')
        /\ ( /\ dec_call'.n # dec_call.n
             /\ NoteOffFor(dec_call')
             /\ Key(dec_call'.data[2], dec_call'.data[1] - 128) \in Keys(active_notes) )
           => /\ Key(dec_call'.data[2], dec_call'.data[1] - 128) \notin Keys(active_notes')
              /\ Len(history') = Len(history) + 1 ]_vars

\* (a Note On or Note Off for a channel other than 0 succeeds and changes
\* nothing)
OtherChannelsAreIgnored ==
    [][ ( /\ dec_call'.n # dec_call.n
          /\ Decoded(dec_call')
          /\ StatusOf(dec_call') \in (129..143) \cup (145..159) )
        => /\ dec_call'.res = "Ok"
           /\ UNCHANGED <<clockVars, active_notes, history>> ]_vars

\* C38: for every member_count a Set-Zone message can carry (0..15) and for
\* either zone, configure_zone returns, without overflow of the range
\* computation, and the member channels it produces all lie in 2..15, so
\* that no member set contains a master channel (1 or 16).
C38_MembersNeverMaster ==
    [][ ( /\ zone_call'.seq # zone_call.seq
          /\ zone_call'.op = "configure_zone"
          /\ zone_call'.member_count <= 15 )
        => /\ zone_call'.res = "ok"
           /\ Members(IF zone_call'.is_lower THEN lower_zone' ELSE upper_zone')
                 \subseteq 2..15 ]_vars

\* (the range computation stays inside u8 for 0..15, and the members lie in
\* 2..16 for the lower zone and 1..15 for the upper zone)
SetZoneCountsStayInU8 ==
    [][ ( /\ zone_call'.seq # zone_call.seq
          /\ zone_call'.op = "configure_zone"
          /\ zone_call'.member_count <= 15 )
        => /\ zone_call'.res = "ok"
           /\ ~Overflows(zone_call'.is_lower, zone_call'.member_count)
           /\ IF zone_call'.is_lower
              THEN Members(lower_zone') \subseteq 2..16
              ELSE Members(upper_zone') \subseteq 1..15 ]_vars

\* C39: a message that the init state machine rejects with a processing
\* error changes neither the handshake state nor last_message_time.
C39_RejectedMessageChangesNothing ==
    [][ (mpe_call'.seq # mpe_call.seq /\ mpe_call'.res = "ProcessingError")
        => /\ state' = state
           /\ last_message_time' = last_message_time ]_vars

\* (it leaves the state alone)
RejectedMessageKeepsState ==
    [][ (mpe_call'.seq # mpe_call.seq /\ mpe_call'.res = "ProcessingError")
        => state' = state ]_vars
====
